---- MODULE Spec2Model ----
(***************************************************************************)
(* Model of the real-time session client of AICCA:                         *)
(*   - SocketManager (packages/web/src/lib/query-client.ts, lines 58-656): *)
(*     transport ownership, reconnection, outbound queue, inbound protocol *)
(*     handling;                                                           *)
(*   - useAppStore (the zustand store, src/unnamed/part_007): messages,    *)
(*     analysis results, file-id map, connection status.                   *)
(*                                                                         *)
(* Strings are sequences of tokens, so that concatenation, prefix tests    *)
(* and path splitting are computed and not assumed.  A WebSocket is a      *)
(* readyState; the manager's field `socket` is the readyState of the       *)
(* transport it references ("null" when the field is null), and the        *)
(* transports it no longer references, but whose handlers are still        *)
(* attached, are counted per readyState in `orphans`.                      *)
(***************************************************************************)
EXTENDS Integers, Sequences, FiniteSets, TLC

(* ------------------------------ bounds --------------------------------- *)
\* transports the manager has dropped its reference to and that are not yet closed
MaxOrphans == 1
\* pending setTimeout callbacks of handleReconnect / reconnect
MaxTimers == 1
\* outbound messages the user sends in one run
MaxSends == 2
\* messages in the conversation
MaxMessages == 2
\* fragments one reply accumulates
MaxFrags == 2
\* sendFile calls in one run
MaxUploads == 1
\* sendFile calls that run side by side
MaxConcurrent == 2

(* ------------------------- program constants --------------------------- *)
maxReconnectAttempts == 5
reconnectDelays == <<1000, 2000, 4000, 8000, 16000>>
ManualReconnectDelay == 100
CHUNK_SIZE == 1024 * 1024

VARIABLES
  \* SocketManager fields
  socket,                     \* readyState of this.socket, or "null"
  orphans,                    \* readyState -> number of unreferenced live transports
  reconnectAttempts,
  messageQueue,
  connected,
  currentStreamingMessageId,
  \* the event loop
  timers,                     \* delay -> number of pending reconnection timers
  wire,                       \* messages written to a transport, in order
  pc,                         \* "idle", or "flush" inside flushMessageQueue
  nextMsg,                    \* number of outbound messages sent so far
  \* useAppStore state
  messages,
  analysisResultsByFile,
  currentAnalysis,
  currentFileKey,
  fileIdMap,
  connectionStatus,
  \* sendFile calls: the closure of each (upload id, loop index, listener, promise)
  uploads,
  \* history variables (not program state)
  autoSinceReset,             \* timers scheduled since the last open / reconnect()
  autoSinceConnect,           \* ... since the last open / reconnect() / user connect()
  exhausted,                  \* handleReconnect gave up, no manual call since
  userClosed,                 \* disconnect() was called, no connect()/reconnect() since
  kept,                       \* the outbound queue when reconnect() was last called
  turn,                       \* the chat turn observed since the last chat_start
  last                        \* the inbound event or user action handled last

connVars == <<socket, orphans, reconnectAttempts, messageQueue, connected,
              timers, wire, pc, nextMsg, connectionStatus>>
storeVars == <<messages, analysisResultsByFile, currentAnalysis, currentFileKey,
               fileIdMap>>
protoVars == <<currentStreamingMessageId>>
histConnVars == <<autoSinceReset, autoSinceConnect, exhausted, userClosed, kept>>
histProtoVars == <<turn, last>>
uploadVars == <<uploads>>
vars == <<connVars, storeVars, protoVars, uploadVars, histConnVars, histProtoVars>>

(* ------------------------------ strings -------------------------------- *)
NULL == <<>>
Str(t) == <<t>>
UNKNOWN == Str("unknown")

(* ---------------------------- transports ------------------------------- *)
LiveStates == {"connecting", "open", "closing"}
TimerDelays == {reconnectDelays[i] : i \in 1..Len(reconnectDelays)} \cup {ManualReconnectDelay}

OrphanCount == orphans["connecting"] + orphans["open"] + orphans["closing"]
TimerCount ==
  LET RECURSIVE Sum(_)
      Sum(S) == IF S = {} THEN 0
                ELSE LET d == CHOOSE x \in S : TRUE IN timers[d] + Sum(S \ {d})
  IN Sum(TimerDelays)

\* the transport `this.socket` refers to is dropped by the manager: if it is
\* not closed yet it lives on with the handlers setupEventHandlers gave it
Orphaned(st) ==
  IF st \in LiveStates THEN [orphans EXCEPT ![st] = @ + 1] ELSE orphans

\* socket.close(): CONNECTING and OPEN go to CLOSING, the close event follows later
AfterCloseCall(st) == IF st \in {"connecting", "open"} THEN "closing" ELSE st

(* ======================= Connection Manager ============================ *)

\* this.socket stops referring to a transport in readyState st: the upload
\* listeners added to it stay on it ("old" while it can still deliver frames,
\* "dead" when it is closed), out of reach of this.socket?.removeEventListener
Detached(ups, st) ==
  [i \in DOMAIN ups |->
     IF ups[i].on = "current"
     THEN [ups[i] EXCEPT !.on = IF st \in LiveStates THEN "old" ELSE "dead"]
     ELSE ups[i]]

\* connect(clientId?): a new WebSocket replaces this.socket; the previous one is
\* neither closed nor stripped of its handlers
connect ==
  /\ socket \in LiveStates => OrphanCount < MaxOrphans
  /\ socket' = "connecting"
  /\ orphans' = Orphaned(socket)
  /\ connectionStatus' = "connecting"
  /\ uploads' = Detached(uploads, socket)

\* disconnect(): only when this.socket is set; status is the connection status
\* of the store when it is called
disconnectFrom(status) ==
  /\ socket \in LiveStates => OrphanCount < MaxOrphans
  /\ IF socket # "null"
     THEN /\ orphans' = Orphaned(AfterCloseCall(socket))
          /\ socket' = "null"
          /\ connected' = FALSE
          /\ connectionStatus' = "disconnected"
          /\ uploads' = Detached(uploads, AfterCloseCall(socket))
     ELSE /\ UNCHANGED <<socket, orphans, connected, uploads>>
          /\ connectionStatus' = status

\* disconnect() called with the store as it is
disconnect == disconnectFrom(connectionStatus)

\* mutant: the delay is read after the counter was incremented
DelayIndex_afterIncrement(attempts) ==
  IF attempts + 2 <= Len(reconnectDelays) THEN attempts + 2 ELSE Len(reconnectDelays)

\* the index handleReconnect reads reconnectDelays at (0-based in the source)
DelayIndex(attempts) == attempts + 1

\* handleReconnect(), entered from onclose with the status already 'disconnected'
handleReconnect ==
  IF reconnectAttempts >= maxReconnectAttempts
  THEN /\ connectionStatus' = "error"
       /\ exhausted' = TRUE
       /\ UNCHANGED <<reconnectAttempts, timers, autoSinceReset, autoSinceConnect>>
  ELSE /\ TimerCount < MaxTimers
       /\ timers' = [timers EXCEPT ![reconnectDelays[DelayIndex(reconnectAttempts)]] = @ + 1]
       /\ reconnectAttempts' = reconnectAttempts + 1
       /\ connectionStatus' = "disconnected"
       /\ autoSinceReset' = autoSinceReset + 1
       /\ autoSinceConnect' = autoSinceConnect + 1
       /\ UNCHANGED exhausted

\* send(message): written when this.socket is OPEN, queued otherwise
send(queue, message) ==
  IF socket = "open"
  THEN /\ wire' = Append(wire, message)
       /\ messageQueue' = queue
  ELSE /\ messageQueue' = Append(queue, message)
       /\ wire' = wire

\* mutant: an open event leaves the attempt counter as it is
AttemptsAfterOpen_kept == reconnectAttempts

\* the attempt counter after an open event
AttemptsAfterOpen == 0

\* socket.onopen of the referenced transport (which = "current") or of an orphan
OnOpen(which) ==
  /\ pc = "idle"
  /\ \/ /\ which = "current" /\ socket = "connecting"
        /\ socket' = "open" /\ UNCHANGED orphans
     \/ /\ which = "orphan" /\ orphans["connecting"] > 0
        /\ orphans' = [orphans EXCEPT !["connecting"] = @ - 1, !["open"] = @ + 1]
        /\ UNCHANGED socket
  /\ connected' = TRUE
  /\ reconnectAttempts' = AttemptsAfterOpen
  /\ connectionStatus' = "connected"
  /\ pc' = IF messageQueue # <<>> THEN "flush" ELSE "idle"
  /\ autoSinceReset' = 0
  /\ autoSinceConnect' = 0
  /\ UNCHANGED <<messageQueue, timers, wire, nextMsg, exhausted, userClosed, kept>>
  /\ UNCHANGED <<storeVars, protoVars, histProtoVars>>
  /\ UNCHANGED uploadVars

\* one iteration of the loop of flushMessageQueue()
FlushStep ==
  /\ pc = "flush"
  /\ send(Tail(messageQueue), Head(messageQueue))
  /\ pc' = IF messageQueue' # <<>> /\ connected THEN "flush" ELSE "idle"
  /\ UNCHANGED <<socket, orphans, reconnectAttempts, connected, timers, nextMsg,
                 connectionStatus>>
  /\ UNCHANGED <<storeVars, protoVars, histConnVars, histProtoVars>>
  /\ UNCHANGED uploadVars

\* the close handshake of an open transport starts (readyState CLOSING); no
\* handler runs
ClosingHandshake(which) ==
  /\ pc = "idle"
  /\ \/ /\ which = "current" /\ socket = "open"
        /\ socket' = "closing" /\ UNCHANGED orphans
     \/ /\ which = "orphan" /\ orphans["open"] > 0
        /\ orphans' = [orphans EXCEPT !["open"] = @ - 1, !["closing"] = @ + 1]
        /\ UNCHANGED socket
  /\ UNCHANGED <<reconnectAttempts, messageQueue, connected, timers, wire, pc,
                 nextMsg, connectionStatus>>
  /\ UNCHANGED <<storeVars, protoVars, histConnVars, histProtoVars>>
  /\ UNCHANGED uploadVars

\* socket.onclose of the referenced transport or of an orphan in readyState st.
\* When the transport failed, socket.onerror runs first in the same task; the
\* 'error' status it sets is overwritten by onclose before the task ends.
OnClose(which, st) ==
  /\ pc = "idle"
  /\ \/ /\ which = "current" /\ socket = st
        /\ socket' = "closed" /\ UNCHANGED orphans
     \/ /\ which = "orphan" /\ orphans[st] > 0
        /\ orphans' = [orphans EXCEPT ![st] = @ - 1]
        /\ UNCHANGED socket
  /\ connected' = FALSE
  /\ handleReconnect
  /\ UNCHANGED <<messageQueue, wire, pc, nextMsg, userClosed, kept>>
  /\ UNCHANGED <<storeVars, protoVars, histProtoVars>>
  /\ UNCHANGED uploadVars

\* a timer set by handleReconnect fires: this.connect(this.clientId)
AutoTimerFire(d) ==
  /\ pc = "idle"
  /\ d # ManualReconnectDelay
  /\ timers[d] > 0
  /\ timers' = [timers EXCEPT ![d] = @ - 1]
  /\ connect
  /\ UNCHANGED <<reconnectAttempts, messageQueue, connected, wire, pc, nextMsg>>
  /\ UNCHANGED <<storeVars, protoVars, histConnVars, histProtoVars>>

\* the timer set by reconnect() fires: this.connect()
ManualTimerFire ==
  /\ pc = "idle"
  /\ timers[ManualReconnectDelay] > 0
  /\ timers' = [timers EXCEPT ![ManualReconnectDelay] = @ - 1]
  /\ connect
  /\ UNCHANGED <<reconnectAttempts, messageQueue, connected, wire, pc, nextMsg>>
  /\ UNCHANGED <<storeVars, protoVars, histConnVars, histProtoVars>>

\* WebSocketProvider mounts: socketManager.connect()
Connect ==
  /\ pc = "idle"
  /\ connect
  /\ autoSinceConnect' = 0
  /\ exhausted' = FALSE
  /\ userClosed' = FALSE
  /\ UNCHANGED <<reconnectAttempts, messageQueue, connected, timers, wire, pc,
                 nextMsg, autoSinceReset, kept>>
  /\ UNCHANGED <<storeVars, protoVars, histProtoVars>>

\* WebSocketProvider unmounts: socketManager.disconnect()
Disconnect ==
  /\ pc = "idle"
  /\ disconnect
  /\ userClosed' = TRUE
  /\ exhausted' = FALSE
  /\ UNCHANGED <<reconnectAttempts, messageQueue, timers, wire, pc, nextMsg,
                 autoSinceReset, autoSinceConnect, kept>>
  /\ UNCHANGED <<storeVars, protoVars, histProtoVars>>

\* reconnect(): disconnect(), counter to 0, connect() 100 ms later; status is
\* the connection status of the store when it is called
reconnect(status) ==
  /\ TimerCount < MaxTimers
  /\ disconnectFrom(status)
  /\ reconnectAttempts' = 0
  /\ timers' = [timers EXCEPT ![ManualReconnectDelay] = @ + 1]
  /\ autoSinceReset' = 0
  /\ autoSinceConnect' = 0
  /\ exhausted' = FALSE
  /\ userClosed' = FALSE
  /\ kept' = messageQueue
  /\ UNCHANGED <<messageQueue, wire, pc, nextMsg>>

\* socketManager.reconnect() called on its own
Reconnect ==
  /\ pc = "idle"
  /\ reconnect(connectionStatus)
  /\ UNCHANGED <<storeVars, protoVars, histProtoVars>>

\* sendChat / sendAnalysis / executeToolDirectly / sendPing: one send()
Send ==
  /\ pc = "idle"
  /\ nextMsg < MaxSends
  /\ nextMsg' = nextMsg + 1
  /\ send(messageQueue, nextMsg + 1)
  /\ UNCHANGED <<socket, orphans, reconnectAttempts, connected, timers, pc,
                 connectionStatus>>
  /\ UNCHANGED <<storeVars, protoVars, histConnVars, histProtoVars>>
  /\ UNCHANGED uploadVars

(* ---------------------------- initial state ---------------------------- *)
NoTurn == [phase |-> "none", id |-> NULL, frags |-> <<>>, base |-> 0]
NoEvent == [type |-> "none", arg |-> NULL]

InitStore ==
  /\ messages = <<>>
  /\ analysisResultsByFile = <<>>
  /\ currentAnalysis = NULL
  /\ currentFileKey = NULL
  /\ fileIdMap = <<>>

\* the module has been loaded: new SocketManager(), create<AppState>()
Init ==
  /\ socket = "null"
  /\ orphans = [st \in LiveStates |-> 0]
  /\ reconnectAttempts = 0
  /\ messageQueue = <<>>
  /\ connected = FALSE
  /\ currentStreamingMessageId = NULL
  /\ timers = [d \in TimerDelays |-> 0]
  /\ wire = <<>>
  /\ pc = "idle"
  /\ nextMsg = 0
  /\ InitStore
  /\ connectionStatus = "disconnected"
  /\ uploads = <<>>
  /\ autoSinceReset = 0
  /\ autoSinceConnect = 0
  /\ exhausted = FALSE
  /\ userClosed = FALSE
  /\ kept = <<>>
  /\ turn = NoTurn
  /\ last = NoEvent

(* ------------- the connection manager under every event ---------------- *)
NextConn ==
  \/ Connect
  \/ Disconnect
  \/ Reconnect
  \/ Send
  \/ \E which \in {"current", "orphan"} : OnOpen(which)
  \/ \E which \in {"current", "orphan"} : ClosingHandshake(which)
  \/ \E which \in {"current", "orphan"}, st \in LiveStates : OnClose(which, st)
  \/ \E d \in TimerDelays : AutoTimerFire(d)
  \/ ManualTimerFire
  \/ FlushStep

SpecConn == Init /\ [][NextConn]_vars

(* ============================ Session Store ============================ *)
\* a Message; metadata is flattened into status / tool / level ("none" = absent)
Msg(id, type, content, status, tool, level) ==
  [id |-> id, type |-> type, content |-> content,
   status |-> status, tool |-> tool, level |-> level]

\* identifiers `${prefix}-${Date.now()}-${random}`; n stands for the time and the
\* random part
NewId(prefix, n) == <<prefix, n>>

\* a time-and-random part no identifier in use has: identifiers are only ever
\* compared for equality, so the least number above those in use stands for it
Fresh ==
  LET used == {messages[i].id[2] : i \in DOMAIN messages}
                \cup (IF currentStreamingMessageId = NULL THEN {}
                      ELSE {currentStreamingMessageId[2]})
  IN IF used = {} THEN 1 ELSE 1 + CHOOSE n \in used : \A m \in used : m <= n

\* mutant: addMessage puts the message in front
addMessage_prepend(msgs, message) == <<message>> \o msgs

\* [...state.messages, message]
addMessage(msgs, message) == Append(msgs, message)

updateMessage(msgs, id, updatedMessage) ==
  [i \in DOMAIN msgs |-> IF msgs[i].id = id THEN updatedMessage ELSE msgs[i]]

\* messages.find(m => m.id === id): the index of the first match, 0 if none
FindById(msgs, id) ==
  LET hits == {i \in DOMAIN msgs : msgs[i].id = id}
  IN IF hits = {} THEN 0 ELSE CHOOSE i \in hits : \A j \in hits : i <= j

\* mutant: a tool call counts as open whatever its status
IsOpenToolCall_any(m) == m.type = "tool-call"

\* tool-call whose metadata.status is 'executing' or 'pending'
IsOpenToolCall(m) ==
  m.type = "tool-call" /\ m.status \in {"executing", "pending"}

\* mutant: the first open tool call of `tool` instead of the last
FindLastOpenToolCall_first(msgs, tool) ==
  LET hits == {i \in DOMAIN msgs : msgs[i].type = "tool-call"
                 /\ msgs[i].status \in {"executing", "pending"} /\ msgs[i].tool = tool}
  IN IF hits = {} THEN 0 ELSE CHOOSE i \in hits : \A j \in hits : i <= j

\* messages.findLast(tool-call of `tool` that is pending or executing), 0 if none
FindLastOpenToolCall(msgs, tool) ==
  LET hits == {i \in DOMAIN msgs : IsOpenToolCall(msgs[i]) /\ msgs[i].tool = tool}
  IN IF hits = {} THEN 0 ELSE CHOOSE i \in hits : \A j \in hits : j <= i

\* an AnalysisResult (its id and timestamp are never read by the program)
Analysis(type, content, fileName, fileId) ==
  [type |-> type, content |-> content, fileName |-> fileName, fileId |-> fileId]

\* analysis.fileId || analysis.fileName || 'unknown'
FileKeyOf(analysis) ==
  IF analysis.fileId # NULL THEN analysis.fileId
  ELSE IF analysis.fileName # NULL THEN analysis.fileName
  ELSE UNKNOWN

\* mutant: the results of the same tool are kept
KeepOthers_all(existing, analysis) == existing

\* existing.filter(r => r.type !== analysis.type)
KeepOthers(existing, analysis) ==
  SelectSeq(existing, LAMBDA r : r.type # analysis.type)

\* mutant: a result of the same tool already stored under the key is kept and
\* the new one is not stored
SetResults_keepStored(byFile, analysis) ==
  LET fileKey == FileKeyOf(analysis)
      existing == IF fileKey \in DOMAIN byFile THEN byFile[fileKey] ELSE <<>>
  IN [k \in DOMAIN byFile \cup {fileKey} |->
        IF k = fileKey /\ \A i \in DOMAIN existing : existing[i].type # analysis.type
        THEN Append(existing, analysis)
        ELSE IF k = fileKey THEN existing ELSE byFile[k]]

\* the map setCurrentAnalysis(analysis) leaves in analysisResultsByFile
SetResults(byFile, analysis) ==
  LET fileKey == FileKeyOf(analysis)
      existing == IF fileKey \in DOMAIN byFile THEN byFile[fileKey] ELSE <<>>
      filteredExisting == KeepOthers(existing, analysis)
  IN [k \in DOMAIN byFile \cup {fileKey} |->
        IF k = fileKey THEN Append(filteredExisting, analysis) ELSE byFile[k]]

\* setCurrentAnalysis(analysis), analysis not null
setCurrentAnalysis(analysis) ==
  /\ currentAnalysis' = analysis
  /\ analysisResultsByFile' = SetResults(analysisResultsByFile, analysis)

\* mutant: addFileMapping starts a new map
addFileMapping_alone(map, filename, fileId) == <<[name |-> filename, id |-> fileId]>>

\* addFileMapping: a Map keeps the insertion order of its keys
addFileMapping(map, filename, fileId) ==
  IF \E i \in DOMAIN map : map[i].name = filename
  THEN [i \in DOMAIN map |->
          IF map[i].name = filename THEN [name |-> filename, id |-> fileId] ELSE map[i]]
  ELSE Append(map, [name |-> filename, id |-> fileId])

MapHas(map, filename) == \E i \in DOMAIN map : map[i].name = filename
MapGet(map, filename) == map[CHOOSE i \in DOMAIN map : map[i].name = filename].id

\* the first name, in insertion order, that the map gives the id; 'unknown' if none
NameOfId(map, fileId) ==
  LET hits == {i \in DOMAIN map : map[i].id = fileId}
  IN IF hits = {} THEN UNKNOWN
     ELSE map[CHOOSE i \in hits : \A j \in hits : i <= j].name

(* ------------------- file resolution of tool_result -------------------- *)
\* the part of s after its last separator token, s itself if it has none
AfterLast(s, sep) ==
  LET at == {i \in DOMAIN s : s[i] = sep}
  IN IF at = {} THEN s
     ELSE SubSeq(s, (CHOOSE i \in at : \A j \in at : j <= i) + 1, Len(s))

\* path.split('/').pop() || path.split('\\').pop() || path
BaseName(path) ==
  IF AfterLast(path, "/") # <<>> THEN AfterLast(path, "/")
  ELSE IF AfterLast(path, "\\") # <<>> THEN AfterLast(path, "\\")
  ELSE path

NoArgs == [image_path |-> NULL, media_path |-> NULL, file_path |-> NULL, content |-> NULL]

\* the first of possiblePaths that is a non-empty string, NULL if none
FirstPath(args) ==
  IF args.image_path # NULL THEN args.image_path
  ELSE IF args.media_path # NULL THEN args.media_path
  ELSE IF args.file_path # NULL THEN args.file_path
  ELSE args.content

IsFileRef(path) == path # <<>> /\ Head(path) = "file:"

\* fileName and fileId after the loop over original_args
FromArgs(args, map) ==
  LET path == FirstPath(args)
  IN IF path = NULL THEN [fileName |-> UNKNOWN, fileId |-> NULL]
     ELSE IF IsFileRef(path)
          THEN [fileName |-> NameOfId(map, Tail(path)), fileId |-> Tail(path)]
          ELSE [fileName |-> BaseName(path), fileId |-> NULL]

\* result.file_name, else result.media_path, else result.local_analysis.file_path
FromResult(result) ==
  IF result.file_name # NULL THEN result.file_name
  ELSE IF result.media_path # NULL THEN result.media_path
  ELSE IF result.local_path # NULL THEN result.local_path
  ELSE UNKNOWN

\* mutant: the file id of a file name is not looked up in the map
ResolveFile_noLookup(args, result, map) ==
  LET a == FromArgs(args, map)
  IN [fileName |-> IF a.fileName = UNKNOWN THEN FromResult(result) ELSE a.fileName,
      fileId |-> a.fileId]

\* fileName and fileId that tool_result stores
ResolveFile(args, result, map) ==
  LET a == FromArgs(args, map)
      fileName == IF a.fileName = UNKNOWN THEN FromResult(result) ELSE a.fileName
      fileId == IF a.fileId = NULL /\ fileName # UNKNOWN /\ MapHas(map, fileName)
                THEN MapGet(map, fileName) ELSE a.fileId
  IN [fileName |-> fileName, fileId |-> fileId]


(* =================== Message Protocol State Machine ==================== *)
\* socket.onmessage runs for every transport that still delivers frames
Inbound ==
  /\ pc = "idle"
  /\ socket \in {"open", "closing"} \/ orphans["open"] + orphans["closing"] > 0

Event(type, arg) == [type |-> type, arg |-> arg]
NotChat == turn' = NoTurn
ConnUnchanged == UNCHANGED <<connVars, histConnVars, uploadVars>>

\* content the first fragment leaves in the placeholder
FirstContent(old, content) == content

\* mutant: a later fragment replaces the content
Accumulate_replace(old, content) == content

\* content a later fragment leaves in the reply
Accumulate(old, content) == old \o content

\* the message chat_content creates when no message has the streaming id
NewReply(id, content) == Msg(id, "agent-reply", content, "none", "none", "none")

\* case 'chat_start'
ChatStart ==
  /\ Inbound
  /\ Len(messages) < MaxMessages
  /\ LET messageId == NewId("msg", Fresh)
     IN /\ currentStreamingMessageId' = messageId
        /\ messages' = addMessage(messages,
             Msg(messageId, "agent-thinking", Str("thinking"), "none", "none", "none"))
        /\ turn' = [phase |-> "open", id |-> messageId, frags |-> <<>>,
                    base |-> Len(messages) + 1]
  /\ last' = Event("chat_start", NULL)
  /\ UNCHANGED <<analysisResultsByFile, currentAnalysis, currentFileKey, fileIdMap>>
  /\ ConnUnchanged

\* case 'chat_content', data.content = content
ChatContent(content) ==
  /\ Inbound
  /\ LET id == currentStreamingMessageId
         i == FindById(messages, id)
     IN IF id # NULL
        THEN IF i # 0
             THEN /\ messages[i].type # "agent-thinking" =>
                       Len(messages[i].content) < MaxFrags
                  /\ messages' = updateMessage(messages, id,
                       [messages[i] EXCEPT
                          !.type = "agent-reply",
                          !.content = IF messages[i].type = "agent-thinking"
                                      THEN FirstContent(@, content)
                                      ELSE Accumulate(@, content)])
             ELSE messages' = addMessage(messages, NewReply(id, content))
        ELSE UNCHANGED messages
  /\ turn' = IF turn.phase = "open" THEN [turn EXCEPT !.frags = @ \o content] ELSE NoTurn
  /\ last' = Event("chat_content", content)
  /\ UNCHANGED <<currentStreamingMessageId, analysisResultsByFile,
                 currentAnalysis, currentFileKey, fileIdMap>>
  /\ ConnUnchanged

\* mutant: chat_complete leaves the tool calls as they are
CompleteTools_none(snapshot) == snapshot

\* the forEach of chat_complete: every tool call of the snapshot that is pending
\* or executing is replaced by its copy with status 'success'
CompleteTools(snapshot) ==
  LET RECURSIVE Go(_, _)
      Go(cur, k) ==
        IF k > Len(snapshot) THEN cur
        ELSE Go(IF IsOpenToolCall(snapshot[k])
                THEN updateMessage(cur, snapshot[k].id,
                                   [snapshot[k] EXCEPT !.status = "success"])
                ELSE cur, k + 1)
  IN Go(snapshot, 1)

\* case 'chat_complete'
ChatComplete ==
  /\ Inbound
  /\ currentStreamingMessageId' = NULL
  /\ messages' = CompleteTools(messages)
  /\ turn' = IF turn.phase = "open" THEN [turn EXCEPT !.phase = "done"] ELSE NoTurn
  /\ last' = Event("chat_complete", NULL)
  /\ UNCHANGED <<analysisResultsByFile, currentAnalysis, currentFileKey, fileIdMap>>
  /\ ConnUnchanged

\* mutant: tool_call keeps the streaming id it found
AfterToolId_kept == currentStreamingMessageId

\* the streaming id tool_call installs for the text that follows the call
AfterToolId == NewId("msg-after-tool", Fresh)

\* case 'tool_call', data.tool_name = tool
ToolCall(tool) ==
  /\ Inbound
  /\ Len(messages) < MaxMessages
  /\ messages' = addMessage(messages,
       Msg(NewId("tool", Fresh), "tool-call", <<"tool-exec", tool>>,
           "executing", tool, "none"))
  /\ currentStreamingMessageId' = AfterToolId
  /\ NotChat
  /\ last' = Event("tool_call", NULL)
  /\ UNCHANGED <<analysisResultsByFile, currentAnalysis, currentFileKey, fileIdMap>>
  /\ ConnUnchanged

\* the messages after the status of the latest open tool call of `tool` in the
\* snapshot is set; `cur` is the list the update is applied to
SettleToolCall(cur, snapshot, tool, status) ==
  LET i == FindLastOpenToolCall(snapshot, tool)
  IN IF i # 0
     THEN updateMessage(cur, snapshot[i].id, [snapshot[i] EXCEPT !.status = status])
     ELSE cur

\* the content stored for tool `type` under fileKey, NULL if there is none
StoredContent(byFile, fileKey, type) ==
  LET existing == IF fileKey \in DOMAIN byFile THEN byFile[fileKey] ELSE <<>>
      hits == {i \in DOMAIN existing : existing[i].type = type}
  IN IF hits = {} THEN NULL ELSE existing[CHOOSE i \in hits : TRUE].content

\* case 'tool_result', data.tool_name = tool, data.original_args = args,
\* data.result = result
ToolResult(tool, args, result) ==
  /\ Inbound
  /\ LET f == ResolveFile(args, result, fileIdMap)
         key == IF f.fileId # NULL THEN f.fileId ELSE f.fileName
     IN /\ setCurrentAnalysis(Analysis(tool, result, f.fileName, key))
        /\ currentFileKey' =
             IF f.fileId # NULL \/ f.fileName # UNKNOWN THEN key ELSE currentFileKey
        /\ last' = Event("tool_result",
                         [tool |-> tool, args |-> args, result |-> result,
                          prev |-> StoredContent(analysisResultsByFile, key, tool)])
  /\ messages' = SettleToolCall(messages, messages, tool, "success")
  /\ NotChat
  /\ UNCHANGED <<currentStreamingMessageId, fileIdMap>>
  /\ ConnUnchanged

\* case 'analysis_start', data.request_id = requestId (NULL when absent)
AnalysisStart(requestId) ==
  /\ Inbound
  /\ Len(messages) < MaxMessages
  /\ LET analysisMessageId ==
           IF requestId # NULL THEN requestId ELSE NewId("analysis", Fresh)
     IN /\ currentStreamingMessageId' = analysisMessageId
        /\ messages' = addMessage(messages,
             Msg(analysisMessageId, "agent-thinking", Str("analyzing"),
                 "none", "none", "none"))
  /\ NotChat
  /\ last' = Event("analysis_start", NULL)
  /\ UNCHANGED <<analysisResultsByFile, currentAnalysis, currentFileKey, fileIdMap>>
  /\ ConnUnchanged

\* case 'analysis_progress', data.status = status
AnalysisProgress(status) ==
  /\ Inbound
  /\ Len(messages) < MaxMessages
  /\ messages' = addMessage(messages,
       Msg(NewId("progress", Fresh), "system-alert", status, "none", "none", "info"))
  /\ NotChat
  /\ last' = Event("analysis_progress", NULL)
  /\ UNCHANGED <<currentStreamingMessageId, analysisResultsByFile, currentAnalysis,
                 currentFileKey, fileIdMap>>
  /\ ConnUnchanged

\* case 'analysis_tool_result'
AnalysisToolResult(tool, result) ==
  /\ Inbound
  /\ setCurrentAnalysis(Analysis(tool, result, NULL, NULL))
  /\ NotChat
  /\ last' = Event("analysis_tool_result", NULL)
  /\ UNCHANGED <<messages, currentStreamingMessageId, currentFileKey, fileIdMap>>
  /\ ConnUnchanged

\* case 'analysis_complete'
AnalysisComplete(result) ==
  /\ Inbound
  /\ LET id == currentStreamingMessageId
         i == FindById(messages, id)
     IN IF id # NULL
        THEN /\ messages' =
                  IF i # 0 /\ messages[i].type = "agent-thinking"
                  THEN updateMessage(messages, id,
                         [messages[i] EXCEPT !.type = "agent-reply",
                                             !.content = Str("analysis-complete")])
                  ELSE messages
             /\ currentStreamingMessageId' = NULL
        ELSE UNCHANGED <<messages, currentStreamingMessageId>>
  /\ setCurrentAnalysis(Analysis("complete", result, NULL, NULL))
  /\ NotChat
  /\ last' = Event("analysis_complete", NULL)
  /\ UNCHANGED <<currentFileKey, fileIdMap>>
  /\ ConnUnchanged

\* case 'error', data.message = message, data.tool_name = tool ("none" when absent)
ErrorEvent(message, tool) ==
  /\ Inbound
  /\ Len(messages) < MaxMessages
  /\ LET alert == Msg(NewId("error", Fresh), "system-alert",
                      <<"error:">> \o message, "none", "none", "error")
     IN messages' =
          IF tool # "none"
          THEN SettleToolCall(addMessage(messages, alert), messages, tool, "error")
          ELSE addMessage(messages, alert)
  /\ NotChat
  /\ last' = Event("error", tool)
  /\ UNCHANGED <<currentStreamingMessageId, analysisResultsByFile, currentAnalysis,
                 currentFileKey, fileIdMap>>
  /\ ConnUnchanged

(* ------------------------------ uploads -------------------------------- *)
\* mutant: the number of chunks is rounded down
TotalChunks_floor(size) == size \div CHUNK_SIZE

\* Math.ceil(file.size / CHUNK_SIZE)
TotalChunks(size) == (size + CHUNK_SIZE - 1) \div CHUNK_SIZE

\* mutant: the loop numbers the chunks from the end of the file
Chunk_backwards(up, i) ==
  [type |-> "file_chunk", upload_id |-> up.id, chunk_index |-> up.total - 1 - i,
   total_chunks |-> up.total, bytes |-> 0]

\* the file_chunk envelope of loop index i
Chunk(up, i) ==
  LET start == i * CHUNK_SIZE
      end == IF start + CHUNK_SIZE < up.size THEN start + CHUNK_SIZE ELSE up.size
  IN [type |-> "file_chunk", upload_id |-> up.id, chunk_index |-> i,
      total_chunks |-> up.total, bytes |-> end - start]

\* a message event reaches the transport this.socket refers to, or one it has
\* dropped
InboundOn(which) ==
  /\ pc = "idle"
  /\ \/ which = "current" /\ socket \in {"open", "closing"}
     \/ which = "orphan" /\ orphans["open"] + orphans["closing"] > 0

\* the transport `which` carries the listener of the upload
Hears(up, which) ==
  \/ which = "current" /\ up.on = "current"
  \/ which = "orphan" /\ up.on = "old"

\* this.socket?.removeEventListener('message', handleUploadResult): it reaches
\* the listener only when it sits on the transport this.socket refers to
RemoveListener(up) ==
  IF up.on = "current" THEN [up EXCEPT !.on = "removed"] ELSE up

\* resolve / reject: a promise keeps its first settlement
Settle(up, outcome, fileId) ==
  IF up.outcome = "pending"
  THEN [up EXCEPT !.outcome = outcome, !.fileId = fileId]
  ELSE up

\* history: the first of upload_complete, error and timeout that occurred for
\* the upload, on whatever transport
Occurred(up, what) ==
  IF up.first = "none" THEN [up EXCEPT !.first = what] ELSE up

\* the handleUploadResult listeners on a frame of type upload_complete or error
\* that carries uploadId
HandleUploadResult(ups, which, type, uploadId, fileId) ==
  [i \in DOMAIN ups |->
     IF ups[i].id = uploadId
     THEN LET seen == Occurred(ups[i], type)
          IN IF Hears(ups[i], which)
             THEN Settle(RemoveListener(seen),
                         IF type = "upload_complete" THEN "resolved" ELSE "rejected",
                         IF type = "upload_complete" THEN fileId ELSE NULL)
             ELSE seen
     ELSE ups[i]]

\* sendFile(file), file.size = size: the promise executor up to the first await;
\* `cap` bounds the number of calls of the session
SendFileAmong(size, cap) ==
  /\ pc = "idle"
  /\ Len(uploads) < cap
  /\ uploads' = Append(uploads,
       [id |-> NewId("upload", Len(uploads) + 1), size |-> size,
        total |-> TotalChunks(size), next |-> 0, emitted |-> <<>>,
        on |-> IF socket # "null" THEN "current" ELSE "none",
        outcome |-> "pending", fileId |-> NULL, timer |-> TRUE, first |-> "none"])
  /\ last' = Event("send_file", NULL)
  /\ NotChat
  /\ UNCHANGED <<connVars, storeVars, protoVars, histConnVars>>

SendFile(size) == SendFileAmong(size, MaxUploads)

\* one iteration of the loop of sendChunks: the reader delivers the chunk and
\* the envelope is handed to send()
SendChunk(i) ==
  /\ pc = "idle"
  /\ i \in DOMAIN uploads
  /\ uploads[i].next < uploads[i].total
  /\ LET envelope == Chunk(uploads[i], uploads[i].next)
     IN /\ send(messageQueue, envelope)
        /\ uploads' = [uploads EXCEPT ![i].next = @ + 1,
                                      ![i].emitted = Append(@, envelope)]
  /\ last' = Event("file_chunk", NULL)
  /\ NotChat
  /\ UNCHANGED <<socket, orphans, reconnectAttempts, connected, timers, pc, nextMsg,
                 connectionStatus>>
  /\ UNCHANGED <<storeVars, protoVars, histConnVars>>

\* the 30 s timer of sendFile fires
UploadTimeout(i) ==
  /\ pc = "idle"
  /\ i \in DOMAIN uploads
  /\ uploads[i].timer
  /\ uploads' = [uploads EXCEPT
       ![i] = [Settle(RemoveListener(Occurred(@, "timeout")), "rejected", NULL)
                 EXCEPT !.timer = FALSE]]
  /\ last' = Event("upload_timeout", NULL)
  /\ NotChat
  /\ UNCHANGED <<connVars, storeVars, protoVars, histConnVars>>

\* a frame of type 'upload_complete' on the transport `which`, data.upload_id =
\* uploadId, data.file_id = fileId, data.file_info.name = name: the case of
\* handleServerMessage and the upload listeners of that transport
UploadComplete(which, uploadId, fileId, name) ==
  /\ InboundOn(which)
  /\ fileIdMap' = IF fileId # NULL /\ name # NULL
                  THEN addFileMapping(fileIdMap, name, fileId)
                  ELSE fileIdMap
  /\ uploads' = HandleUploadResult(uploads, which, "upload_complete", uploadId, fileId)
  /\ NotChat
  /\ last' = Event("upload_complete",
                   [upload_id |-> uploadId, file_id |-> fileId, name |-> name])
  /\ UNCHANGED <<messages, currentStreamingMessageId, analysisResultsByFile,
                 currentAnalysis, currentFileKey>>
  /\ UNCHANGED <<connVars, histConnVars>>

\* a frame of type 'error' that carries data.upload_id = uploadId and no
\* tool_name: the case of handleServerMessage and the upload listeners
UploadError(which, uploadId, message) ==
  /\ InboundOn(which)
  /\ Len(messages) < MaxMessages
  /\ messages' = addMessage(messages,
       Msg(NewId("error", Fresh), "system-alert", <<"error:">> \o message,
           "none", "none", "error"))
  /\ uploads' = HandleUploadResult(uploads, which, "error", uploadId, NULL)
  /\ NotChat
  /\ last' = Event("error", [upload_id |-> uploadId, file_id |-> NULL])
  /\ UNCHANGED <<currentStreamingMessageId, analysisResultsByFile, currentAnalysis,
                 currentFileKey, fileIdMap>>
  /\ UNCHANGED <<connVars, histConnVars>>

\* mutant: an informational frame ends the stream
Informational_endsStream(type) ==
  /\ Inbound
  /\ NotChat
  /\ last' = Event(type, NULL)
  /\ currentStreamingMessageId' = NULL
  /\ UNCHANGED storeVars
  /\ ConnUnchanged

\* case 'connection', 'upload_progress', 'pong', default: logging only
Informational(type) ==
  /\ Inbound
  /\ NotChat
  /\ last' = Event(type, NULL)
  /\ UNCHANGED <<storeVars, protoVars>>
  /\ ConnUnchanged

\* mutant: a frame that does not parse closes the transport
Malformed_closes ==
  /\ Inbound
  /\ NotChat
  /\ last' = Event("malformed", NULL)
  /\ socket' = AfterCloseCall(socket)
  /\ UNCHANGED <<orphans, reconnectAttempts, messageQueue, connected, timers, wire,
                 pc, nextMsg, connectionStatus>>
  /\ UNCHANGED <<storeVars, protoVars, uploadVars, histConnVars>>

\* socket.onmessage with a frame JSON.parse rejects: the catch logs it
Malformed ==
  /\ Inbound
  /\ NotChat
  /\ last' = Event("malformed", NULL)
  /\ UNCHANGED <<storeVars, protoVars>>
  /\ ConnUnchanged

\* ChatPanel.handleSend: addMessage(user message), socketManager.sendChat(message)
UserSend ==
  /\ pc = "idle"
  /\ Len(messages) < MaxMessages
  /\ nextMsg < MaxSends
  /\ messages' = addMessage(messages,
       Msg(NewId("user", Fresh), "user", Str("hello"), "none", "none", "none"))
  /\ nextMsg' = nextMsg + 1
  /\ send(messageQueue, nextMsg + 1)
  /\ NotChat
  /\ last' = Event("user", NULL)
  /\ UNCHANGED <<socket, orphans, reconnectAttempts, connected, timers, pc,
                 connectionStatus, histConnVars>>
  /\ UNCHANGED <<currentStreamingMessageId, analysisResultsByFile, currentAnalysis,
                 currentFileKey, fileIdMap>>
  /\ UNCHANGED uploadVars

\* the reset button of ChatPanel and ConnectionStatus: resetAll(), then
\* socketManager.reconnect()
ResetSession ==
  /\ pc = "idle"
  /\ messages' = <<>>
  /\ currentAnalysis' = NULL
  /\ analysisResultsByFile' = <<>>
  /\ currentFileKey' = NULL
  /\ fileIdMap' = <<>>
  /\ reconnect("disconnected")
  /\ NotChat
  /\ last' = Event("reset", NULL)
  /\ UNCHANGED protoVars

(* ---------------------- inputs of the protocol ------------------------- *)
Frags == {Str("A"), Str("B")}
Tools == {"detect_ai", "c2pa_verify"}
RequestIds == {NewId("req", 1)}
FileIds == {Str("f1")}
FileNames == {Str("a.png")}
\* an upload id no sendFile call of the session generated
NoUpload == NewId("upload", 0)
UploadIds == {NewId("upload", n) : n \in 0..MaxUploads}

Result(tag, fileName) ==
  [tag |-> tag, file_name |-> fileName, media_path |-> NULL, local_path |-> NULL]
Results == {Result("p1", NULL)}
\* payloads of tool_result: two that differ, one of them naming its file
Payloads == {Result("p1", NULL), Result("p2", Str("a.png"))}

\* original_args of a tool call: none, a file reference, a path
ArgChoices ==
  {NoArgs,
   [NoArgs EXCEPT !.image_path = <<"file:", "f1">>],
   [NoArgs EXCEPT !.file_path = <<"uploads", "/", "a.png">>]}

\* a session whose transport is open: the state after connect() and the open event
InitOpen ==
  /\ socket = "open"
  /\ orphans = [st \in LiveStates |-> 0]
  /\ reconnectAttempts = 0
  /\ messageQueue = <<>>
  /\ connected = TRUE
  /\ currentStreamingMessageId = NULL
  /\ timers = [d \in TimerDelays |-> 0]
  /\ wire = <<>>
  /\ pc = "idle"
  /\ nextMsg = 0
  /\ InitStore
  /\ connectionStatus = "connected"
  /\ uploads = <<>>
  /\ autoSinceReset = 0
  /\ autoSinceConnect = 0
  /\ exhausted = FALSE
  /\ userClosed = FALSE
  /\ kept = <<>>
  /\ turn = NoTurn
  /\ last = NoEvent

(* --------- the conversation under chat and analysis events ------------- *)
NextChat ==
  \/ ChatStart
  \/ \E content \in Frags : ChatContent(content)
  \/ ChatComplete
  \/ ToolCall("detect_ai")
  \/ \E requestId \in RequestIds \cup {NULL} : AnalysisStart(requestId)
  \/ \E result \in Results : AnalysisComplete(result)
  \/ UserSend

SpecChat == InitOpen /\ [][NextChat]_vars

(* ------------- the analysis results under result events ---------------- *)
NextResults ==
  \/ \E tool \in Tools, args \in ArgChoices, result \in Results :
       ToolResult(tool, args, result)
  \/ \E tool \in Tools, result \in Results : AnalysisToolResult(tool, result)
  \/ \E result \in Results : AnalysisComplete(result)
  \/ \E fileId \in FileIds, name \in FileNames :
       UploadComplete("current", NoUpload, fileId, name)

SpecResults == InitOpen /\ [][NextResults]_vars

(* ------------ tool calls under the events that settle them ------------ *)
ErrorTexts == {Str("boom")}

NextTools ==
  \/ \E tool \in Tools : ToolCall(tool)
  \/ \E tool \in Tools, result \in Results : ToolResult(tool, NoArgs, result)
  \/ \E message \in ErrorTexts, tool \in Tools \cup {"none"} : ErrorEvent(message, tool)
  \/ ChatStart
  \/ \E content \in {Str("A")} : ChatContent(content)
  \/ ChatComplete

SpecTools == InitOpen /\ [][NextTools]_vars

(* --------- the conversation under frames that carry no event ----------- *)
InfoTypes == {"connection", "pong", "upload_progress", "totally_unknown"}

NextFrames ==
  \/ ChatStart
  \/ \E content \in {Str("A")} : ChatContent(content)
  \/ ChatComplete
  \/ ToolCall("detect_ai")
  \/ \E result \in Results : ToolResult("detect_ai", NoArgs, result)
  \/ \E type \in InfoTypes : Informational(type)
  \/ Malformed

SpecFrames == InitOpen /\ [][NextFrames]_vars

(* -------- the message list under the events that write to it ---------- *)
NextStore ==
  \/ ChatStart
  \/ \E content \in {Str("A")} : ChatContent(content)
  \/ ChatComplete
  \/ ToolCall("detect_ai")
  \/ \E result \in Results : ToolResult("detect_ai", NoArgs, result)
  \/ \E requestId \in RequestIds \cup {NULL} : AnalysisStart(requestId)
  \/ \E status \in {Str("scanning")} : AnalysisProgress(status)
  \/ \E result \in Results : AnalysisComplete(result)
  \/ \E message \in ErrorTexts, tool \in {"detect_ai", "none"} : ErrorEvent(message, tool)
  \/ Informational("totally_unknown")
  \/ UserSend

SpecStore == InitOpen /\ [][NextStore]_vars

(* ------------- the results of files under tool_result events ----------- *)
NextFiles ==
  \/ \E tool \in Tools, args \in ArgChoices, result \in Payloads :
       ToolResult(tool, args, result)
  \/ \E fileId \in FileIds, name \in FileNames :
       UploadComplete("current", NoUpload, fileId, name)

SpecFiles == InitOpen /\ [][NextFiles]_vars

(* ------- the file-id map under events, user actions and resets --------- *)
\* upload_complete frames: two files, two ids, and frames that lack one of them
MapIds == FileIds \cup {Str("f2"), NULL}
MapNames == FileNames \cup {Str("b.png"), NULL}

NextMap ==
  \/ \E fileId \in MapIds, name \in MapNames :
       UploadComplete("current", NoUpload, fileId, name)
  \/ \E result \in Results : ToolResult("detect_ai", NoArgs, result)
  \/ \E message \in ErrorTexts : UploadError("current", NoUpload, message)
  \/ Informational("upload_progress")
  \/ UserSend
  \/ Reconnect
  \/ ResetSession
  \/ ManualTimerFire
  \/ OnOpen("current")
  \/ FlushStep

SpecMap == InitOpen /\ [][NextMap]_vars

(* ------------- uploads while the connection comes and goes ------------- *)
NextUpload ==
  \/ Connect
  \/ \E which \in {"current", "orphan"} : OnOpen(which)
  \/ \E which \in {"current", "orphan"}, st \in LiveStates : OnClose(which, st)
  \/ \E d \in TimerDelays : AutoTimerFire(d)
  \/ FlushStep
  \/ SendFile(CHUNK_SIZE)
  \/ \E i \in 1..MaxUploads : SendChunk(i)
  \/ \E i \in 1..MaxUploads : UploadTimeout(i)
  \/ \E which \in {"current", "orphan"}, uploadId \in UploadIds,
         fileId \in FileIds, name \in FileNames :
       UploadComplete(which, uploadId, fileId, name)
  \/ \E which \in {"current", "orphan"}, uploadId \in UploadIds,
         message \in ErrorTexts :
       UploadError(which, uploadId, message)

\* a timer that was set fires: the 30 s timer of every sendFile call runs
\* unless the thread never returns to the event loop
SpecUpload ==
  Init /\ [][NextUpload]_vars /\ WF_vars(\E i \in 1..MaxUploads : UploadTimeout(i))

(* ------------------- the chunks sendFile hands to send ----------------- *)
\* file sizes: empty, one full chunk, one byte more, 2.5 MiB
FileSizes == {0, CHUNK_SIZE, CHUNK_SIZE + 1, 5 * (CHUNK_SIZE \div 2)}

NextChunks ==
  \/ \E size \in FileSizes : SendFile(size)
  \/ \E i \in 1..MaxUploads : SendChunk(i)
  \/ \E i \in 1..MaxUploads : UploadTimeout(i)
  \/ OnOpen("current")
  \/ \E st \in LiveStates : OnClose("current", st)
  \/ \E d \in TimerDelays : AutoTimerFire(d)
  \/ FlushStep

SpecChunks == InitOpen /\ [][NextChunks]_vars

(* ---------------- sendFile calls that run side by side ----------------- *)
\* two-chunk files; the server answers the calls, and fails the first one;
\* the connection drops while chunks are being sent and comes back
ConcurrentIds == {NewId("upload", n) : n \in 0..MaxConcurrent}

NextConcurrent ==
  \/ SendFileAmong(CHUNK_SIZE + 1, MaxConcurrent)
  \/ \E i \in 1..MaxConcurrent : SendChunk(i)
  \/ \E uploadId \in ConcurrentIds \ {NoUpload}, fileId \in FileIds,
         name \in FileNames :
       UploadComplete("current", uploadId, fileId, name)
  \/ \E message \in ErrorTexts :
       UploadError("current", NewId("upload", 1), message)
  \/ OnOpen("current")
  \/ OnClose("current", "open")
  \/ \E d \in TimerDelays : AutoTimerFire(d)
  \/ FlushStep

SpecConcurrent == InitOpen /\ [][NextConcurrent]_vars

(* ====================== claims: Connection Manager ===================== *)
AutoDelays == TimerDelays \ {ManualReconnectDelay}

\* a step in which handleReconnect set a timer
TimerScheduled == \E d \in AutoDelays : timers'[d] > timers[d]

\* a step in which `new WebSocket` ran
TransportCreated ==
  /\ socket' = "connecting"
  /\ socket # "connecting" \/ orphans'["connecting"] > orphans["connecting"]

LiveTransports ==
  (IF socket \in {"connecting", "open"} THEN 1 ELSE 0)
    + orphans["connecting"] + orphans["open"]

\* C1 as stated: counting the automatic attempts since the last open, the last
\* reconnect() or the last connect() of the user, the n-th one is scheduled with
\* delay reconnectDelays[n], and there is no sixth.
C1_BackoffSinceConnect ==
  [][\A d \in AutoDelays :
       timers'[d] > timers[d] =>
         /\ autoSinceConnect < maxReconnectAttempts
         /\ d = reconnectDelays[autoSinceConnect + 1]]_vars

\* C1 amended: counting the automatic attempts since the last transport open
\* or the last reconnect() (connect() does not restart the count), the n-th
\* one is scheduled with delay reconnectDelays[n], n = 1..5, and a close after
\* five of them schedules none.
C1_BackoffSinceReset ==
  [][\A d \in AutoDelays :
       timers'[d] > timers[d] =>
         /\ autoSinceReset < maxReconnectAttempts
         /\ d = reconnectDelays[autoSinceReset + 1]]_vars

\* C1 witness: the fifth automatic attempt is pending with its 16 s delay
C1_Witness == autoSinceReset = 5 /\ timers[16000] = 1

\* C2: every message the flush takes from the queue is written to a transport
\* (none is lost or put back), and the wire carries the messages in the order
\* they were sent, each once.
C2_QueueDeliveredInOrder ==
  /\ [](\A i, j \in 1..Len(wire) : i < j => wire[i] < wire[j])
  /\ [][pc = "flush" =>
          /\ wire' = Append(wire, Head(messageQueue))
          /\ messageQueue' = Tail(messageQueue)]_vars

\* C4: once disconnect() was called, and until connect() or reconnect() is
\* called, no reconnection timer is set and no transport is created.
C4_NoReconnectAfterDisconnect ==
  [][(userClosed /\ userClosed') => (~TimerScheduled /\ ~TransportCreated)]_vars

\* C5: at most one transport with handlers attached is connecting or open.
C5_AtMostOneLiveTransport == LiveTransports <= 1

\* C6: once handleReconnect has given up, and until the user calls the manager
\* again, the status stays 'error' and no transport is created.
C6_ExhaustionTerminal ==
  [][(exhausted /\ exhausted') =>
       (connectionStatus' = "error" /\ ~TransportCreated)]_vars

\* the messages of `queue` that reconnect() found queued
OfKept(queue) == SelectSeq(queue, LAMBDA m : \E k \in DOMAIN kept : kept[k] = m)

\* C17: reconnect() leaves the outbound queue as it is; the messages it found
\* queued are, from then on, each either written or still queued, once and in
\* their original order, and when the flush that follows an open event takes
\* one of them from the queue it writes it to the transport.
C17_ReconnectKeepsQueue ==
  /\ [](OfKept(wire \o messageQueue) = kept)
  /\ [][(pc = "flush" /\ OfKept(<<Head(messageQueue)>>) # <<>>) =>
          /\ wire' = Append(wire, Head(messageQueue))
          /\ messageQueue' = Tail(messageQueue)]_vars

(* ================= claims: Message Protocol State Machine ============== *)
\* C3: when chat_complete closes a turn that consisted of chat_start and then
\* one or more chat_content fragments and nothing else, the message chat_start
\* created is the last and only message of the turn, is an agent-reply, and
\* its content is the fragments concatenated in arrival order.
C3_StreamedReply ==
  (turn.phase = "done" /\ turn.frags # <<>>) =>
    /\ Len(messages) = turn.base
    /\ \A i \in DOMAIN messages : messages[i].id = turn.id <=> i = turn.base
    /\ messages[turn.base].type = "agent-reply"
    /\ messages[turn.base].content = turn.frags

\* C3 witness: the turn chat_start, chat_content(A), chat_content(B),
\* chat_complete has just ended
C3_Witness ==
  /\ turn.phase = "done"
  /\ turn.frags = <<"A", "B">>
  /\ last.type = "chat_complete"

\* C7: chat_content handled while no streaming id is set (before any
\* chat_start, after chat_complete) appends an agent-reply message whose
\* content is the fragment, and changes no earlier message.
C7_ContentWithoutStreamCreatesReply ==
  [][(last'.type = "chat_content" /\ currentStreamingMessageId = NULL) =>
       /\ Len(messages') = Len(messages) + 1
       /\ SubSeq(messages', 1, Len(messages)) = messages
       /\ messages'[Len(messages')].type = "agent-reply"
       /\ messages'[Len(messages')].content = last'.arg]_vars

\* C8: no two messages of the store have the same id.
C8_MessageIdsUnique ==
  \A i, j \in DOMAIN messages : i # j => messages[i].id # messages[j].id

\* C9: analysis_start and analysis_complete handled inside a chat turn (after
\* chat_start, before chat_complete) leave the streaming id of the chat alone.
C9_AnalysisLeavesChatStream ==
  [][(turn.phase = "open" /\ last'.type \in {"analysis_start", "analysis_complete"}) =>
       currentStreamingMessageId' = currentStreamingMessageId]_vars

(* ========================= claims: Session Store ======================= *)
\* C10: under every file key the results have pairwise different tool types.
C10_OneResultPerToolPerFile ==
  \A k \in DOMAIN analysisResultsByFile :
    \A i, j \in DOMAIN analysisResultsByFile[k] :
      i # j => analysisResultsByFile[k][i].type # analysisResultsByFile[k][j].type

\* C10 witness: a tool_result has been stored under a key that holds results
\* of three tool types
C10_Witness ==
  /\ last.type = "tool_result"
  /\ \E k \in DOMAIN analysisResultsByFile : Len(analysisResultsByFile[k]) = 3

\* the results stored under fileKey, none if the key is absent
ResultsOf(byFile, fileKey) ==
  IF fileKey \in DOMAIN byFile THEN byFile[fileKey] ELSE <<>>

\* C11: a tool_result leaves, under the file key it resolves to, exactly one
\* entry of its tool, holding its payload (so the second of two events for the
\* same tool and key wins); the entries of other tools under that key keep
\* their content and order, and every other key keeps its list.
C11_LastResultWins ==
  [][last'.type = "tool_result" =>
       LET tool == last'.arg.tool
           fileKey == FileKeyOf(currentAnalysis')
           old == ResultsOf(analysisResultsByFile, fileKey)
           new == ResultsOf(analysisResultsByFile', fileKey)
           ofTool == SelectSeq(new, LAMBDA r : r.type = tool)
       IN /\ Len(ofTool) = 1
          /\ ofTool[1].content = last'.arg.result
          /\ SelectSeq(new, LAMBDA r : r.type # tool)
               = SelectSeq(old, LAMBDA r : r.type # tool)
          /\ \A k \in DOMAIN analysisResultsByFile :
               k # fileKey => /\ k \in DOMAIN analysisResultsByFile'
                              /\ analysisResultsByFile'[k] = analysisResultsByFile[k]
          /\ DOMAIN analysisResultsByFile' = DOMAIN analysisResultsByFile \cup {fileKey}]_vars

\* C11 witness: a tool_result has replaced a different payload of its tool
\* under a key that also holds the result of another tool
C11_Witness ==
  /\ last.type = "tool_result"
  /\ last.arg.prev # NULL
  /\ last.arg.prev # last.arg.result
  /\ Len(ResultsOf(analysisResultsByFile, FileKeyOf(currentAnalysis))) = 2

(* ============================ claims: tool calls ======================= *)
\* C12: a tool-call message enters the store with status executing; in every
\* step its status stays, or goes from executing to success or to error; a
\* status that is success or error is never changed (tool_result, error and
\* chat_complete included).
C12_ToolStatusForward ==
  [][/\ \A j \in DOMAIN messages' :
          (messages'[j].type = "tool-call"
             /\ \A i \in DOMAIN messages : messages[i].id # messages'[j].id)
            => messages'[j].status = "executing"
     /\ \A i \in DOMAIN messages, j \in DOMAIN messages' :
          (messages[i].type = "tool-call" /\ messages'[j].id = messages[i].id)
            => \/ messages'[j].status = messages[i].status
               \/ /\ messages[i].status = "executing"
                  /\ messages'[j].status \in {"success", "error"}]_vars

\* C12 witness: a tool call failed, and a tool_result for the same tool has
\* been handled since
C12_Witness ==
  /\ last.type = "tool_result"
  /\ \E i \in DOMAIN messages :
       /\ messages[i].type = "tool-call"
       /\ messages[i].status = "error"
       /\ messages[i].tool = last.arg.tool

(* ============================== claims: uploads ======================== *)
\* a step in which a frame of the given type was handled
FrameStep(type) == last'.type = type /\ UNCHANGED <<connVars, histConnVars>>

\* C13: while a sendFile call is pending, an upload_complete frame that
\* carries its upload id resolves it with the frame's file id, and an
\* upload_complete or error frame that carries another upload id leaves it
\* pending.
C13_UploadCorrelation ==
  [][\A i \in DOMAIN uploads :
       uploads[i].outcome = "pending" =>
         /\ (FrameStep("upload_complete") /\ last'.arg.upload_id = uploads[i].id)
              => /\ uploads'[i].outcome = "resolved"
                 /\ uploads'[i].fileId = last'.arg.file_id
         /\ ((FrameStep("upload_complete") \/ FrameStep("error"))
               /\ last'.arg.upload_id # uploads[i].id)
              => uploads'[i].outcome = "pending"]_vars

\* the settlement the first of the three events calls for
OutcomeOf(first) == IF first = "upload_complete" THEN "resolved" ELSE "rejected"

\* C14: a sendFile call is settled by the first of a correlated
\* upload_complete (resolved), a correlated error (rejected) and the 30 s
\* timeout (rejected); a settled call keeps its outcome and value; every call
\* is settled eventually.
C14_SettlesOnceWithFirst ==
  /\ [](\A i \in DOMAIN uploads :
         /\ uploads[i].first # "none" => uploads[i].outcome = OutcomeOf(uploads[i].first)
         /\ uploads[i].first = "none" => uploads[i].outcome = "pending")
  /\ [][\A i \in DOMAIN uploads :
          uploads[i].outcome # "pending" =>
            /\ uploads'[i].outcome = uploads[i].outcome
            /\ uploads'[i].fileId = uploads[i].fileId]_vars
  /\ \A i \in 1..MaxUploads :
       (i \in DOMAIN uploads)
         ~> (i \in DOMAIN uploads /\ uploads[i].outcome # "pending")

\* C15: a pending sendFile call has its listener registered on a transport,
\* and a settled call has no listener left on any transport.
C15_ListenerHygiene ==
  \A i \in DOMAIN uploads :
    /\ uploads[i].outcome = "pending" => uploads[i].on \in {"current", "old", "dead"}
    /\ uploads[i].outcome # "pending" => uploads[i].on \in {"none", "removed"}

\* ceil(size / 1 MiB)
CeilMiB(size) ==
  IF size % 1048576 = 0 THEN size \div 1048576 ELSE size \div 1048576 + 1

\* C16: the envelopes sendFile has handed to send() for a file of size S are
\* file_chunk envelopes with the upload id of the call, total_chunks =
\* ceil(S / 1 MiB) and chunk_index 0, 1, 2, ... in that order; there are never
\* more than ceil(S / 1 MiB) of them and exactly that many once the loop is
\* over.
C16_ChunkEnvelopes ==
  \A i \in DOMAIN uploads :
    LET up == uploads[i]
        n == CeilMiB(up.size)
    IN /\ Len(up.emitted) <= n
       /\ up.next = up.total => Len(up.emitted) = n
       /\ \A k \in DOMAIN up.emitted :
            /\ up.emitted[k].type = "file_chunk"
            /\ up.emitted[k].upload_id = up.id
            /\ up.emitted[k].total_chunks = n
            /\ up.emitted[k].chunk_index = k - 1

\* C16 witness: a file of 2.5 MiB has been sent in 3 envelopes
C16_Witness ==
  \E i \in DOMAIN uploads :
    /\ uploads[i].size = 2621440
    /\ uploads[i].next = uploads[i].total
    /\ Len(uploads[i].emitted) = 3
    /\ uploads[i].emitted[3].chunk_index = 2
    /\ uploads[i].emitted[3].bytes = 524288

(* ====================== claims: frames without effect ================== *)
\* C18: handling a frame of type connection or pong, or of a type the client
\* does not know, changes neither the store (messages, analysis results,
\* current file key, file-id map, connection status) nor the streaming id.
C18_InformationalFramesInert ==
  [][last'.type \in {"connection", "pong", "totally_unknown"} =>
       UNCHANGED <<storeVars, connectionStatus, currentStreamingMessageId>>]_vars

\* C18 witness: an unknown frame was handled in the middle of a stream
C18_Witness ==
  /\ last.type = "totally_unknown"
  /\ currentStreamingMessageId # NULL
  /\ messages # <<>>

\* C19: a frame that does not parse changes neither the store, the streaming
\* id, the connection fields nor the transport; a chat_content that follows it
\* is applied to the streaming message as usual.
C19_MalformedFrameDropped ==
  /\ [][last'.type = "malformed" =>
          UNCHANGED <<storeVars, protoVars, connVars, uploadVars>>]_vars
  /\ [][(last.type = "malformed" /\ last'.type = "chat_content"
           /\ FindById(messages, currentStreamingMessageId) # 0) =>
          LET i == FindById(messages, currentStreamingMessageId)
          IN /\ messages'[i].type = "agent-reply"
             /\ messages'[i].content # messages[i].content]_vars

\* C19 witness: a frame that does not parse was dropped in the middle of a
\* stream whose message has content
C19_Witness ==
  /\ last.type = "malformed"
  /\ currentStreamingMessageId # NULL
  /\ \E i \in DOMAIN messages :
       messages[i].id = currentStreamingMessageId /\ messages[i].type = "agent-reply"

(* ============================ claims: file keys ======================== *)
\* the file id a tool_result knows: the one its first path argument refers
\* to, else the one the file-id map gives the file name; NULL if neither
KnownFileId(args, fileName) ==
  LET path == FirstPath(args)
  IN IF path # NULL /\ IsFileRef(path) /\ Tail(path) # NULL THEN Tail(path)
     ELSE IF fileName # UNKNOWN /\ MapHas(fileIdMap, fileName)
          THEN MapGet(fileIdMap, fileName)
          ELSE NULL

\* C20: a tool_result stores its AnalysisResult under the file id when it
\* knows one (and then adds nothing under the file name), under the file name
\* when it knows a name and no id, and under "unknown" when it knows neither.
C20_FileKeyPreference ==
  [][last'.type = "tool_result" =>
       LET stored == currentAnalysis'
           fileName == stored.fileName
           fileId == KnownFileId(last'.arg.args, fileName)
           fileKey == IF fileId # NULL THEN fileId
                      ELSE IF fileName # UNKNOWN THEN fileName
                      ELSE UNKNOWN
           new == ResultsOf(analysisResultsByFile', fileKey)
       IN /\ new # <<>>
          /\ new[Len(new)] = stored
          /\ \A k \in DOMAIN analysisResultsByFile' :
               k # fileKey =>
                 analysisResultsByFile'[k] = ResultsOf(analysisResultsByFile, k)]_vars

\* C20 witness: a tool_result that named its file by a path, for a file whose
\* id the map knows, has been stored under the id
C20_Witness ==
  /\ last.type = "tool_result"
  /\ last.arg.args.file_path # NULL
  /\ currentAnalysis.fileName = Str("a.png")
  /\ MapHas(fileIdMap, Str("a.png"))
  /\ Str("f1") \in DOMAIN analysisResultsByFile
  /\ Str("a.png") \notin DOMAIN analysisResultsByFile

(* ========================= claims: the message list ==================== *)
\* the ids of the messages, in list order
Ids(msgs) == [i \in DOMAIN msgs |-> msgs[i].id]

\* C21: in every step of a session that is not reset, the ids of the messages
\* before the step are a prefix of the ids after it: no event and no user
\* send removes or reorders messages.
C21_MessagesAppendOnly ==
  [][/\ Len(messages') >= Len(messages)
     /\ SubSeq(Ids(messages'), 1, Len(messages)) = Ids(messages)]_vars

\* C21 witness: an error event has been added behind a tool call it settled
C21_Witness ==
  /\ last.type = "error"
  /\ Len(messages) = 2
  /\ messages[1].type = "tool-call"
  /\ messages[1].status = "error"

(* ================= the field adapter (field-adapter.ts) ================ *)
\* Numbers are fixed-point with two decimals: Num(1) stands for 1.0, a raw
\* score of 0.82 is 82 and a normalised score of 82 is Num(82). A value that
\* may be undefined is NULL when it is and <<v>> when it is set; an object is a
\* record that carries every field the adapter reads, the missing ones NULL.
Num(n) == n * 100
Some(v) == <<v>>
MathMax(a, b) == IF a >= b THEN a ELSE b
MathMin(a, b) == IF a <= b THEN a ELSE b
\* Math.round: the nearest integer, halves upwards
MathRound(x) == ((x + Num(1) \div 2) \div Num(1)) * Num(1)

\* truthiness of a number and of a boolean that may be undefined
TruthyNum(v) == v # NULL /\ v[1] # 0
TruthyBool(v) == v # NULL /\ v[1]
\* a || b and a && b return one of their operands
OrNum(a, b) == IF TruthyNum(a) THEN a ELSE b
OrBool(a, b) == IF TruthyBool(a) THEN a ELSE b
AndBool(a, b) == IF TruthyBool(a) THEN b ELSE a

\* a tool name is the sequence of its characters
UpperCase ==
  <<"A", "B", "C", "D", "E", "F", "G", "H", "I", "J", "K", "L", "M",
    "N", "O", "P", "Q", "R", "S", "T", "U", "V", "W", "X", "Y", "Z">>
LowerCase ==
  <<"a", "b", "c", "d", "e", "f", "g", "h", "i", "j", "k", "l", "m",
    "n", "o", "p", "q", "r", "s", "t", "u", "v", "w", "x", "y", "z">>
\* mutant: the name is compared as it is written
toLowerCase_asWritten(name) == name

toLowerCase(name) ==
  [i \in DOMAIN name |->
     IF \E k \in DOMAIN UpperCase : UpperCase[k] = name[i]
       THEN LowerCase[CHOOSE k \in DOMAIN UpperCase : UpperCase[k] = name[i]]
       ELSE name[i]]
includes(name, word) ==
  \E i \in 1..(Len(name) - Len(word) + 1) :
     SubSeq(name, i, i + Len(word) - 1) = word

FIELD_MAPPINGS ==
  [deepfake |-> [score |-> <<"deepfake_score", "score", "probability">>,
                 confidence |-> <<"confidence", "certainty">>],
   ai_generated |-> [score |-> <<"ai_generated_score", "ai_score", "score">>,
                     confidence |-> <<"confidence", "certainty">>],
   text |-> [score |-> <<"score", "ai_probability">>,
             sentences |-> <<"sentence_scores", "sentences", "details">>],
   c2pa |-> [valid |-> <<"is_valid", "valid", "validation_status">>,
             tampering |-> <<"tampering_detected", "tampered", "modified">>]]

\* the first of the named fields that is set (no mapping names a nested field)
RECURSIVE extractField(_, _)
extractField(data, possibleFields) ==
  IF possibleFields = <<>> THEN NULL
  ELSE IF data[Head(possibleFields)] # NULL THEN data[Head(possibleFields)]
  ELSE extractField(data, Tail(possibleFields))

DefaultRange == <<0, Num(1)>>

normalizeScore_unclamped(score, originalRange) ==
  IF score = NULL THEN 0
  ELSE ((score[1] - originalRange[1]) * Num(100))
         \div (originalRange[2] - originalRange[1])

normalizeScore(score, originalRange) ==
  IF score = NULL THEN 0
  ELSE LET normalized ==
             ((score[1] - originalRange[1]) * Num(100))
               \div (originalRange[2] - originalRange[1])
       IN MathMax(0, MathMin(Num(100), normalized))

\* what a strategy returns: the fields it does not set stay undefined
\* (metadata.details and rawData are carried along and read by nobody)
Partial(aiDetection, c2paValidation, metadata, detailScores, data) ==
  [aiDetection |-> aiDetection, c2paValidation |-> c2paValidation,
   metadata |-> metadata, detailScores |-> detailScores, rawData |-> data]
AiDetection(score, type, confidence) ==
  Some([score |-> score, type |-> type, confidence |-> confidence])
Metadata(anomalies) == Some([anomalies |-> anomalies])

\* `a || b ? 0 : 50` is `(a || b) ? 0 : 50`
SubScore(analysis, average) ==
  IF analysis # NULL
       /\ (TruthyNum(analysis[1][average]) \/ analysis[1].error # NULL)
    THEN 0 ELSE Num(50)

adaptDeepfakeResult(data) ==
  IF data.video_analysis # NULL THEN
    LET videoAnalysis == data.video_analysis[1] IN
    IF TruthyBool(videoAnalysis.comprehensive_mode) THEN
      LET facialScore == SubScore(videoAnalysis.facial_analysis, "average_deepfake_score")
          aiScore == SubScore(videoAnalysis.general_ai_analysis,
                                 "average_ai_score")
      IN Partial(AiDetection(normalizeScore(Some(MathMax(facialScore, aiScore)),
                                            <<0, Num(1)>>),
                             "mixed", 70),
                 NULL,
                 Metadata(IF videoAnalysis.facial_analysis # NULL
                               /\ videoAnalysis.facial_analysis[1].error # NULL
                            THEN Num(1) ELSE 0),
                 NULL, data)
    ELSE
      LET score == extractField(videoAnalysis,
                     <<"average_deepfake_score", "average_ai_score", "deepfake_score">>)
      IN Partial(AiDetection(normalizeScore(score, <<0, Num(1)>>),
                             IF videoAnalysis.model_used = Some("genai")
                               THEN "ai_generated" ELSE "deepfake",
                             80),
                 NULL, NULL, NULL, data)
  ELSE IF data.sightengine_analysis # NULL THEN
    LET analysis == data.sightengine_analysis[1]
        score == OrNum(analysis.deepfake_score,
                       OrNum(analysis.ai_generated_score, Some(0)))
    IN Partial(AiDetection(normalizeScore(score, <<0, Num(1)>>),
                           IF TruthyNum(analysis.deepfake_score)
                             THEN "deepfake" ELSE "ai_generated",
                           90),
               NULL, NULL, NULL, data)
  ELSE IF data.error # NULL THEN
    Partial(AiDetection(0, "unknown", 0), NULL, Metadata(Num(1)), NULL, data)
  ELSE
    LET score == extractField(data, FIELD_MAPPINGS.deepfake.score)
        confidence == extractField(data, FIELD_MAPPINGS.deepfake.confidence)
    IN Partial(AiDetection(normalizeScore(score, DefaultRange), "deepfake",
                           OrNum(confidence, Some(0))[1]),
               NULL, NULL, NULL, data)

adaptAIGeneratedResult(data) ==
  LET score == extractField(data, FIELD_MAPPINGS.ai_generated.score)
      confidence == extractField(data, FIELD_MAPPINGS.ai_generated.confidence)
  IN Partial(AiDetection(normalizeScore(score, DefaultRange), "ai_generated",
                         OrNum(confidence, Some(0))[1]),
             NULL, NULL, NULL, data)

\* a sentence item is a number, or an object with an optional score
adaptTextResult(data) ==
  LET score == extractField(data, FIELD_MAPPINGS.text.score)
      sentences == extractField(data, FIELD_MAPPINGS.text.sentences)
      detailScores ==
        IF sentences = NULL THEN NULL
        ELSE Some([index \in DOMAIN sentences[1] |->
                     [index |-> index - 1,
                      score |-> IF sentences[1][index].number # NULL
                                  THEN sentences[1][index].number[1]
                                  ELSE OrNum(sentences[1][index].score, Some(0))[1]]])
  IN Partial(AiDetection(normalizeScore(score, DefaultRange), "ai_generated", 0),
             NULL, NULL, detailScores, data)

C2paValidation(valid, hasCredential, tampering, trustStatus) ==
  Some([valid |-> valid, hasCredential |-> hasCredential,
        tampering |-> tampering, trustStatus |-> trustStatus])

\* validation_errors is the length of the list, NULL when there is no list;
\* a list, even an empty one, is truthy
adaptC2PAResult(data) ==
  IF data.validation_report # NULL THEN
    LET report == data.validation_report[1]
        hasCredential == OrBool(Some(report.manifest_store # NULL), data.has_manifest)
        isValid == OrBool(report.is_valid,
                          AndBool(hasCredential, Some(report.validation_errors = NULL)))
    IN Partial(NULL,
               C2paValidation(isValid, hasCredential,
                              OrBool(report.tampering_detected, Some(FALSE)),
                              IF report.trust_status # NULL
                                THEN report.trust_status ELSE Some("unknown")),
               Metadata(IF report.validation_errors # NULL
                          THEN Num(report.validation_errors[1]) ELSE 0),
               NULL, data)
  ELSE IF data.error # NULL \/ data.status = Some("error") THEN
    Partial(NULL, C2paValidation(Some(FALSE), Some(FALSE), Some(FALSE), Some("error")),
            Metadata(Num(1)), NULL, data)
  ELSE
    LET valid == extractField(data, FIELD_MAPPINGS.c2pa.valid)
        tampering == extractField(data, FIELD_MAPPINGS.c2pa.tampering)
    IN Partial(NULL,
               C2paValidation(Some(TruthyBool(valid)),
                              OrBool(Some(data.manifest_store # NULL), data.has_manifest),
                              Some(TruthyBool(tampering)),
                              NULL),
               NULL, NULL, data)

RECURSIVE SumOf(_)
SumOf(scores) == IF scores = <<>> THEN 0 ELSE Head(scores) + SumOf(Tail(scores))

\* the components of the risk score that a result has
RiskComponents(result) ==
  (IF result.aiDetection # NULL THEN <<result.aiDetection[1].score>> ELSE <<>>)
  \o (IF result.c2paValidation = NULL THEN <<>>
      ELSE IF ~TruthyBool(result.c2paValidation[1].valid)
                \/ TruthyBool(result.c2paValidation[1].tampering)
        THEN <<Num(80)>>
      ELSE IF TruthyBool(result.c2paValidation[1].hasCredential)
                /\ TruthyBool(result.c2paValidation[1].valid)
        THEN <<Num(20)>>
      ELSE <<>>)
  \o (IF result.metadata # NULL /\ result.metadata[1].anomalies # 0
        THEN <<MathMin(Num(100), result.metadata[1].anomalies * 10)>>
        ELSE <<>>)

\* mutant: the highest component instead of the mean
calculateRiskScore_max(result) ==
  LET scores == RiskComponents(result)
  IN IF Len(scores) > 0
       THEN MathRound(CHOOSE s \in {scores[i] : i \in DOMAIN scores} :
                        \A i \in DOMAIN scores : scores[i] <= s)
       ELSE Num(50)

calculateRiskScore(result) ==
  LET scores == RiskComponents(result)
  IN IF Len(scores) > 0
       THEN MathRound(SumOf(scores) \div Len(scores))
       ELSE Num(50)

Chars_deepfake == <<"d", "e", "e", "p", "f", "a", "k", "e">>
Chars_ai == <<"a", "i">>
Chars_detect == <<"d", "e", "t", "e", "c", "t">>
Chars_text == <<"t", "e", "x", "t">>
Chars_c2pa == <<"c", "2", "p", "a">>

adaptToolResult(toolName, data) ==
  LET toolNameLower == toLowerCase(toolName)
      result ==
        IF includes(toolNameLower, Chars_deepfake) THEN adaptDeepfakeResult(data)
        ELSE IF includes(toolNameLower, Chars_ai)
                  \/ includes(toolNameLower, Chars_detect)
          THEN adaptAIGeneratedResult(data)
        ELSE IF includes(toolNameLower, Chars_text) THEN adaptTextResult(data)
        ELSE IF includes(toolNameLower, Chars_c2pa) THEN adaptC2PAResult(data)
        ELSE Partial(NULL, NULL, NULL, NULL, data)
  IN [aiDetection |-> result.aiDetection,
      c2paValidation |-> result.c2paValidation,
      metadata |-> result.metadata,
      detailScores |-> result.detailScores,
      rawData |-> result.rawData,
      riskScore |-> calculateRiskScore(result)]

(* ----------------------- inputs of the field adapter ------------------- *)
ToolNames ==
  {<<"d", "e", "e", "p", "f", "a", "k", "e", "_", "d", "e", "t", "e", "c", "t", "o", "r">>,
   <<"D", "e", "e", "p", "F", "a", "k", "e">>,
   <<"d", "e", "t", "e", "c", "t", "_", "a", "i">>,
   <<"t", "e", "x", "t", "_", "s", "c", "a", "n">>,
   <<"c", "2", "p", "a", "_", "v", "e", "r", "i", "f", "y">>,
   <<"C", "2", "P", "A">>,
   <<"A", "I", "_", "T", "e", "x", "t">>,
   <<"t", "e", "x", "t", "_", "c", "2", "p", "a">>,
   <<"c", "2", "p", "a", "_", "d", "e", "t", "a", "i", "l">>,
   <<"e", "x", "i", "f">>}

NoData ==
  [video_analysis |-> NULL, sightengine_analysis |-> NULL, error |-> NULL,
   status |-> NULL, validation_report |-> NULL, has_manifest |-> NULL,
   manifest_store |-> NULL, is_valid |-> NULL, valid |-> NULL,
   validation_status |-> NULL, tampering_detected |-> NULL, tampered |-> NULL,
   modified |-> NULL, deepfake_score |-> NULL, score |-> NULL,
   probability |-> NULL, ai_generated_score |-> NULL, ai_score |-> NULL,
   ai_probability |-> NULL, confidence |-> NULL, certainty |-> NULL,
   sentence_scores |-> NULL, sentences |-> NULL, details |-> NULL]

\* raw scores: none, 0, 0.05, 0.41, 0.82, 1, and two outside [0,1]
UnitScores == {Some(0), Some(5), Some(41), Some(82), Some(Num(1))}
RawScores == {NULL, Some(0 - 20), Some(150)} \cup UnitScores
Flags == {NULL, Some(TRUE), Some(FALSE)}
ErrorChoices == {NULL, Some("no manifest")}

SightPayloads ==
  {[NoData EXCEPT !.sightengine_analysis =
      Some([deepfake_score |-> d, ai_generated_score |-> a])] :
     d \in {NULL} \cup UnitScores, a \in {NULL, Some(30)}}

FacialAnalyses ==
  {NULL} \cup {Some([average_deepfake_score |-> a, error |-> e]) :
                 a \in {NULL, Some(0), Some(60)}, e \in ErrorChoices}
GeneralAnalyses ==
  {NULL} \cup {Some([average_ai_score |-> a, error |-> e]) :
                 a \in {NULL, Some(0), Some(30)}, e \in ErrorChoices}

VideoPayloads ==
  {[NoData EXCEPT !.video_analysis =
      Some([comprehensive_mode |-> Some(TRUE), facial_analysis |-> f,
            general_ai_analysis |-> g, model_used |-> NULL,
            average_deepfake_score |-> NULL, average_ai_score |-> NULL,
            deepfake_score |-> NULL])] :
     f \in FacialAnalyses, g \in GeneralAnalyses}
  \cup
  {[NoData EXCEPT !.video_analysis =
      Some([comprehensive_mode |-> NULL, facial_analysis |-> NULL,
            general_ai_analysis |-> NULL, model_used |-> m,
            average_deepfake_score |-> d, average_ai_score |-> a,
            deepfake_score |-> NULL])] :
     m \in {NULL, Some("genai")}, d \in {NULL, Some(0), Some(60)},
     a \in {NULL, Some(30)}}

ScorePayloads ==
  {[NoData EXCEPT !.score = s, !.deepfake_score = d, !.ai_generated_score = a,
                  !.confidence = c, !.error = e] :
     s \in RawScores, d \in {NULL, Some(82)}, a \in {NULL, Some(30)},
     c \in {NULL, Some(90)}, e \in ErrorChoices}

Sentence(number, score) == [number |-> number, score |-> score]
TextPayloads ==
  {[NoData EXCEPT !.score = s, !.sentence_scores = l] :
     s \in {NULL, Some(41)},
     l \in {NULL, Some(<<>>),
            Some(<<Sentence(Some(10), NULL), Sentence(NULL, Some(90)),
                   Sentence(NULL, NULL)>>)}}

\* a validation report: validation_errors is the length of the list it carries
Reports ==
  {[is_valid |-> v, manifest_store |-> m, validation_errors |-> n,
    tampering_detected |-> t, trust_status |-> NULL] :
     v \in Flags, m \in {NULL, Some("store")},
     n \in {NULL, Some(0), Some(2), Some(12)}, t \in {NULL, Some(TRUE)}}

ReportPayloads ==
  {[NoData EXCEPT !.validation_report = Some(r), !.error = e, !.has_manifest = h] :
     r \in Reports, e \in ErrorChoices, h \in {NULL, Some(TRUE)}}

CredentialPayloads ==
  {[NoData EXCEPT !.is_valid = v, !.manifest_store = m, !.has_manifest = h,
                  !.tampering_detected = t, !.error = e, !.status = s] :
     v \in Flags, m \in {NULL, Some("store")}, h \in Flags,
     t \in {NULL, Some(TRUE)}, e \in ErrorChoices, s \in {NULL, Some("error")}}

AdapterPayloads ==
  SightPayloads \cup VideoPayloads \cup ScorePayloads \cup TextPayloads
    \cup ReportPayloads \cup CredentialPayloads

\* a call of adaptToolResult that is about to be made
InitAdapter ==
  /\ socket = "open"
  /\ orphans = [st \in LiveStates |-> 0]
  /\ reconnectAttempts = 0
  /\ messageQueue = <<>>
  /\ connected = TRUE
  /\ currentStreamingMessageId = NULL
  /\ timers = [d \in TimerDelays |-> 0]
  /\ wire = <<>>
  /\ pc = "idle"
  /\ nextMsg = 0
  /\ InitStore
  /\ connectionStatus = "connected"
  /\ uploads = <<>>
  /\ autoSinceReset = 0
  /\ autoSinceConnect = 0
  /\ exhausted = FALSE
  /\ userClosed = FALSE
  /\ kept = <<>>
  /\ turn = NoTurn
  /\ \E toolName \in ToolNames, data \in AdapterPayloads :
       last = Event("call", [toolName |-> toolName, data |-> data])

\* the call returns: `last` holds the arguments and the result
AdaptToolResult ==
  /\ last.type = "call"
  /\ last' = Event("adapt",
                   [toolName |-> last.arg.toolName, data |-> last.arg.data,
                    result |-> adaptToolResult(last.arg.toolName, last.arg.data)])
  /\ UNCHANGED <<connVars, storeVars, protoVars, uploadVars, histConnVars, turn>>

NextAdapter == AdaptToolResult

SpecAdapter == InitAdapter /\ [][NextAdapter]_vars

(* ========================= claims: the field adapter =================== *)
Adapted == last.type = "adapt"
SelectsDeepfake(toolName) == includes(toLowerCase(toolName), Chars_deepfake)
SelectsC2pa(toolName) ==
  /\ includes(toLowerCase(toolName), Chars_c2pa)
  /\ ~includes(toLowerCase(toolName), Chars_deepfake)
  /\ ~includes(toLowerCase(toolName), Chars_ai)
  /\ ~includes(toLowerCase(toolName), Chars_detect)
  /\ ~includes(toLowerCase(toolName), Chars_text)

\* none of the three components of the risk score is there
NoComponent(result) ==
  /\ result.aiDetection = NULL
  /\ \/ result.c2paValidation = NULL
     \/ /\ result.c2paValidation[1].valid = Some(TRUE)
        /\ result.c2paValidation[1].tampering # Some(TRUE)
        /\ result.c2paValidation[1].hasCredential # Some(TRUE)
  /\ result.metadata = NULL \/ result.metadata[1].anomalies = 0

IsSightDeepfake(data) ==
  /\ data.sightengine_analysis # NULL
  /\ data.sightengine_analysis[1].deepfake_score \in UnitScores
  /\ data.sightengine_analysis[1].ai_generated_score = NULL
  /\ data.video_analysis = NULL

\* C23: under the deepfake strategy the payload {sightengine_analysis:
\* {deepfake_score: s}}, s in [0,1], is adapted to the score 100*s of type
\* deepfake.
C23_SightengineDeepfake ==
  (Adapted /\ SelectsDeepfake(last.arg.toolName) /\ IsSightDeepfake(last.arg.data)) =>
    /\ last.arg.result.aiDetection # NULL
    /\ last.arg.result.aiDetection[1].score
         = 100 * last.arg.data.sightengine_analysis[1].deepfake_score[1]
    /\ last.arg.result.aiDetection[1].type = "deepfake"

\* C24: under the credential strategy a payload with a top-level error is
\* adapted to a result that is not valid and has no credential (neither field
\* is true), whatever else the payload carries.
C24_ErrorForcesInvalid ==
  (Adapted /\ SelectsC2pa(last.arg.toolName) /\ last.arg.data.error # NULL) =>
    /\ last.arg.result.c2paValidation # NULL
    /\ ~TruthyBool(last.arg.result.c2paValidation[1].valid)
    /\ ~TruthyBool(last.arg.result.c2paValidation[1].hasCredential)

(* =================== claims: what each event does to the list ========== *)
\* a tool-call message of `tool` that is pending or executing
OpenFor(m, tool) ==
  m.type = "tool-call" /\ m.tool = tool /\ m.status \in {"pending", "executing"}

\* position j holds the last such message of the list
LatestOpen(msgs, j, tool) ==
  /\ OpenFor(msgs[j], tool)
  /\ \A k \in DOMAIN msgs : k > j => ~OpenFor(msgs[k], tool)

\* C25: a tool_result for tool T sets the status of the last tool-call message
\* of T that is pending or executing to success and changes no other message;
\* when there is no such message the list stays as it is.
C25_ToolResultSettlesLatest ==
  [][last'.type = "tool_result" =>
       /\ Len(messages') = Len(messages)
       /\ \A j \in DOMAIN messages :
            messages'[j] =
              IF LatestOpen(messages, j, last'.arg.tool)
                THEN [messages[j] EXCEPT !.status = "success"]
                ELSE messages[j]]_vars

\* C25 witness: of two open calls of one tool, the tool_result settled the
\* later one and left the earlier one executing
C25_Witness ==
  /\ last.type = "tool_result"
  /\ Len(messages) >= 2
  /\ OpenFor(messages[1], last.arg.tool)
  /\ messages[2].type = "tool-call"
  /\ messages[2].tool = last.arg.tool
  /\ messages[2].status = "success"

\* C26: tool_call keeps every message as it is, appends one tool-call message
\* with status executing and installs a streaming id no message has; a
\* chat_content that follows it appends an agent-reply behind the tool call,
\* and no chat_content changes a message at or before a tool call.
C26_ToolCallSplitsStream ==
  [][/\ last'.type = "tool_call" =>
          /\ Len(messages') = Len(messages) + 1
          /\ SubSeq(messages', 1, Len(messages)) = messages
          /\ messages'[Len(messages')].type = "tool-call"
          /\ messages'[Len(messages')].status = "executing"
          /\ currentStreamingMessageId' # NULL
          /\ currentStreamingMessageId' # currentStreamingMessageId
          /\ \A j \in DOMAIN messages' :
               messages'[j].id # currentStreamingMessageId'
     /\ (last.type = "tool_call" /\ last'.type = "chat_content") =>
          /\ Len(messages') = Len(messages) + 1
          /\ messages[Len(messages)].type = "tool-call"
          /\ messages'[Len(messages')].type = "agent-reply"
          /\ messages'[Len(messages')].content = last'.arg
     /\ last'.type = "chat_content" =>
          \A j \in DOMAIN messages :
            (\E k \in j..Len(messages) : messages[k].type = "tool-call")
              => messages'[j] = messages[j]]_vars

\* C26 witness: the reply that was streaming before the call, the tool call,
\* and the reply a fragment created after it
C26_Witness ==
  /\ last.type = "chat_content"
  /\ Len(messages) = 3
  /\ messages[1].type = "agent-reply"
  /\ messages[1].content = Str("A")
  /\ messages[2].type = "tool-call"
  /\ messages[3].type = "agent-reply"
  /\ messages[3].id = currentStreamingMessageId

\* C27: chat_complete clears the streaming id, sets every tool call that is
\* pending or executing to success and changes nothing else in the list, so
\* that no tool call is open afterwards and a call in error stays in error.
C27_ChatCompleteSettles ==
  [][last'.type = "chat_complete" =>
       /\ currentStreamingMessageId' = NULL
       /\ Len(messages') = Len(messages)
       /\ \A j \in DOMAIN messages :
            messages'[j] =
              IF messages[j].type = "tool-call"
                   /\ messages[j].status \in {"pending", "executing"}
                THEN [messages[j] EXCEPT !.status = "success"]
                ELSE messages[j]
       /\ \A j \in DOMAIN messages' :
            messages'[j].type = "tool-call"
              => messages'[j].status \notin {"pending", "executing"}]_vars

\* C27 witness: chat_complete has been handled; the call of the turn is
\* settled and the placeholder in front of it is as chat_start left it
C27_Witness ==
  /\ last.type = "chat_complete"
  /\ currentStreamingMessageId = NULL
  /\ Len(messages) = 2
  /\ messages[1].type = "agent-thinking"
  /\ messages[2].type = "tool-call"
  /\ messages[2].status = "success"

\* C28: an error event appends one system-alert message of level error, sets
\* the last open tool call of the tool it names (if it names one) to error,
\* changes no other message, and leaves the connection, the streaming id, the
\* analysis results and the file-id map as they are.
C28_ErrorEventNonFatal ==
  [][last'.type = "error" =>
       /\ Len(messages') = Len(messages) + 1
       /\ messages'[Len(messages')].type = "system-alert"
       /\ messages'[Len(messages')].level = "error"
       /\ \A j \in DOMAIN messages :
            messages'[j] =
              IF last'.arg # "none" /\ LatestOpen(messages, j, last'.arg)
                THEN [messages[j] EXCEPT !.status = "error"]
                ELSE messages[j]
       /\ UNCHANGED <<connVars, currentStreamingMessageId, analysisResultsByFile,
                      currentAnalysis, currentFileKey, fileIdMap>>]_vars

\* C28 witness: an error that names a tool has failed its open call while a
\* reply is expected (the streaming id is set)
C28_Witness ==
  /\ last.type = "error"
  /\ last.arg # "none"
  /\ currentStreamingMessageId # NULL
  /\ connectionStatus = "connected"
  /\ \E j \in DOMAIN messages :
       /\ messages[j].type = "tool-call"
       /\ messages[j].tool = last.arg
       /\ messages[j].status = "error"
  /\ messages[Len(messages)].type = "system-alert"

(* ========================= claims: the file-id map ===================== *)
\* the map holds the same entry for every name but `name`, and loses none
OthersKept(before, after, name) ==
  \A i \in DOMAIN before :
    before[i].name # name =>
      MapHas(after, before[i].name) /\ MapGet(after, before[i].name) = before[i].id

\* C29: the file-id map changes only in two kinds of step: an upload_complete
\* that carries a file id and a file name sets the entry of that name to that
\* id and keeps every other entry, and a session reset empties the map; an
\* upload_complete with both always leaves its entry in the map.
C29_FileMapWrittenByUploadComplete ==
  [][/\ fileIdMap' # fileIdMap =>
          \/ /\ FrameStep("upload_complete")
             /\ last'.arg.file_id # NULL
             /\ last'.arg.name # NULL
             /\ OthersKept(fileIdMap, fileIdMap', last'.arg.name)
             /\ \A i \in DOMAIN fileIdMap' :
                  fileIdMap'[i].name # last'.arg.name => MapHas(fileIdMap, fileIdMap'[i].name)
          \/ last'.type = "reset" /\ fileIdMap' = <<>>
     /\ (FrameStep("upload_complete") /\ last'.arg.file_id # NULL
           /\ last'.arg.name # NULL /\ last' # last) =>
          /\ MapHas(fileIdMap', last'.arg.name)
          /\ MapGet(fileIdMap', last'.arg.name) = last'.arg.file_id]_vars

\* C29 witness: a second upload_complete for a.png replaced its id while the
\* entry of b.png stayed
C29_Witness ==
  /\ last.type = "upload_complete"
  /\ last.arg.file_id = Str("f2")
  /\ last.arg.name = Str("a.png")
  /\ Len(fileIdMap) = 2
  /\ MapGet(fileIdMap, Str("a.png")) = Str("f2")
  /\ MapGet(fileIdMap, Str("b.png")) = Str("f1")
  /\ fileIdMap[1].name = Str("a.png")

(* ===================== claims: concurrent uploads ====================== *)
\* the chunks of every upload stand on the wire in increasing chunk_index order
ChunksInOrder(w) ==
  \A p, q \in DOMAIN w :
    (p < q /\ w[p].upload_id = w[q].upload_id) => w[p].chunk_index < w[q].chunk_index

\* C30: with several sendFile calls running, the chunks of each upload are
\* written to the transport in strictly increasing chunk_index order, and an
\* upload_complete or error frame changes the outcome of no call but the one
\* whose upload id it carries.
C30_ConcurrentUploads ==
  [][/\ ChunksInOrder(wire')
     /\ \A i \in DOMAIN uploads :
          (last'.type \in {"upload_complete", "error"}
             /\ uploads'[i].outcome # uploads[i].outcome)
            => last'.arg.upload_id = uploads[i].id]_vars

\* C30 witness: the chunks of two uploads alternate on the wire, the first
\* call is resolved and the second still pending
C30_Witness ==
  /\ Len(uploads) = 2
  /\ Len(wire) = 4
  /\ wire[1].upload_id = uploads[1].id
  /\ wire[2].upload_id = uploads[2].id
  /\ wire[3].upload_id = uploads[1].id
  /\ wire[4].upload_id = uploads[2].id
  /\ uploads[1].outcome = "resolved"
  /\ uploads[2].outcome = "pending"
  /\ last.type = "upload_complete"

(* ================= claims: file resolution of tool_result ============== *)
\* original_args of tool_result frames: the choices above, a path written
\* with backslashes, and a file reference followed by a path
PathArgs ==
  ArgChoices \cup
    {[NoArgs EXCEPT !.media_path = <<"uploads", "\\", "a.png">>],
     [NoArgs EXCEPT !.image_path = <<"file:", "f1">>,
                    !.content = <<"tmp", "/", "b.png">>]}

NextResolve ==
  \/ \E args \in PathArgs, result \in Payloads :
       ToolResult("detect_ai", args, result)
  \/ \E fileId \in FileIds, name \in FileNames :
       UploadComplete("current", NoUpload, fileId, name)

SpecResolve == InitOpen /\ [][NextResolve]_vars

\* the final segment of a path: what follows its last separator
FinalSegment(path) ==
  LET at == {i \in DOMAIN path : path[i] \in {"/", "\\"}}
  IN IF at = {} THEN path
     ELSE SubSeq(path, (CHOOSE i \in at : \A j \in at : j <= i) + 1, Len(path))

\* the first of image_path, media_path, file_path, content that is a string
DecidingArg(args) ==
  LET given == <<args.image_path, args.media_path, args.file_path, args.content>>
      at == {i \in 1..4 : given[i] # NULL}
  IN IF at = {} THEN NULL ELSE given[CHOOSE i \in at : \A j \in at : i <= j]

\* the name and id of the reference algorithm (NULL when there is none)
Reference(args, result, map) ==
  LET value == DecidingArg(args)
      isRef == value # NULL /\ Head(value) = "file:"
      refId == IF isRef THEN Tail(value) ELSE NULL
      refName == IF \E i \in DOMAIN map : map[i].id = refId
                 THEN map[CHOOSE i \in DOMAIN map :
                            /\ map[i].id = refId
                            /\ \A j \in 1..(i - 1) : map[j].id # refId].name
                 ELSE NULL
      argName == IF value = NULL THEN NULL
                 ELSE IF isRef THEN refName ELSE FinalSegment(value)
      name == IF argName # NULL THEN argName
              ELSE IF result.file_name # NULL THEN result.file_name
              ELSE IF result.media_path # NULL THEN result.media_path
              ELSE result.local_path
      id == IF refId = NULL /\ name # NULL /\ MapHas(map, name)
            THEN MapGet(map, name) ELSE refId
  IN [name |-> name, id |-> id,
      key |-> IF id # NULL THEN id ELSE IF name # NULL THEN name ELSE UNKNOWN]

\* C31: the file name and the file key a tool_result stores are those of the
\* reference algorithm: the first string among image_path, media_path,
\* file_path, content decides (file:<id> gives the id and the name mapped to
\* it, any other value its final path segment), the result fields are read
\* only when no name was obtained, a name without id gets the id the map has
\* for it, and the key is "unknown" when there is neither name nor id.
C31_ResolutionMatchesReference ==
  [][last'.type = "tool_result" =>
       LET ref == Reference(last'.arg.args, last'.arg.result, fileIdMap)
       IN /\ currentAnalysis'.fileName =
               (IF ref.name # NULL THEN ref.name ELSE UNKNOWN)
          /\ FileKeyOf(currentAnalysis') = ref.key
          /\ ref.key \in DOMAIN analysisResultsByFile'
          /\ \E i \in DOMAIN analysisResultsByFile'[ref.key] :
               analysisResultsByFile'[ref.key][i] = currentAnalysis']_vars


(* ================ claims: the counter across open events =============== *)
\* a step in which socket.onopen ran
OpenStep ==
  \/ socket = "connecting" /\ socket' = "open"
  \/ /\ orphans'["connecting"] < orphans["connecting"]
     /\ orphans'["open"] > orphans["open"]

\* a step in which socket.onclose ran
CloseStep ==
  /\ ~connected'
  /\ \/ socket # "closed" /\ socket' = "closed"
     \/ orphans'["connecting"] + orphans'["open"] + orphans'["closing"] < OrphanCount

\* C32: an open event sets the reconnection counter to 0; the first close
\* event after it (no automatic attempt has been scheduled since) schedules
\* the next attempt with the delay of 1 s and makes the counter 1; and the
\* manager gives up only after five attempts scheduled since that open event.
C32_OpenRestoresBudget ==
  [][/\ OpenStep => reconnectAttempts' = 0
     /\ (CloseStep /\ autoSinceReset = 0) =>
          /\ timers' = [timers EXCEPT ![reconnectDelays[1]] = @ + 1]
          /\ reconnectAttempts' = 1
     /\ (CloseStep /\ connectionStatus' = "error") =>
          autoSinceReset = maxReconnectAttempts]_vars

\* C32 witness: a transport that carried a message has closed, and the attempt
\* that follows is pending with the 1 s delay, the counter being 1
C32_Witness ==
  /\ wire # <<>>
  /\ socket = "closed"
  /\ OrphanCount = 0
  /\ reconnectAttempts = 1
  /\ timers[reconnectDelays[1]] = 1

\* a payload whose video_analysis is in comprehensive mode and carries both
\* sub-scores
IsComprehensive(data) ==
  /\ data.video_analysis # NULL
  /\ data.video_analysis[1].comprehensive_mode = Some(TRUE)
  /\ data.video_analysis[1].facial_analysis # NULL
  /\ data.video_analysis[1].facial_analysis[1].average_deepfake_score # NULL
  /\ data.video_analysis[1].general_ai_analysis # NULL
  /\ data.video_analysis[1].general_ai_analysis[1].average_ai_score # NULL

\* C33: under the deepfake strategy a comprehensive video payload with facial
\* sub-score a and general-AI sub-score b, both in [0,1], is adapted to the
\* score 100 * max(a, b) of type mixed.
C33_ComprehensiveTakesMax ==
  (Adapted /\ SelectsDeepfake(last.arg.toolName) /\ IsComprehensive(last.arg.data)) =>
    LET video == last.arg.data.video_analysis[1]
        a == video.facial_analysis[1].average_deepfake_score[1]
        b == video.general_ai_analysis[1].average_ai_score[1]
    IN /\ last.arg.result.aiDetection # NULL
       /\ last.arg.result.aiDetection[1].score = 100 * MathMax(a, b)
       /\ last.arg.result.aiDetection[1].type = "mixed"


\* the components the risk score is the mean of: the AI-detection score; 80
\* for a credential that failed validation or was tampered with, 20 for one
\* that is present and valid; 10 for each anomaly, 100 at most
ComponentsPresent(result) ==
  LET ai == result.aiDetection
      c2pa == result.c2paValidation
      meta == result.metadata
      failed == c2pa # NULL /\ (c2pa[1].valid \in {NULL, Some(FALSE)}
                                 \/ c2pa[1].tampering = Some(TRUE))
      sound == c2pa # NULL /\ ~failed /\ c2pa[1].hasCredential = Some(TRUE)
      counted == meta # NULL /\ meta[1].anomalies > 0
  IN (IF ai # NULL THEN <<ai[1].score>> ELSE <<>>)
     \o (IF failed THEN <<Num(80)>> ELSE IF sound THEN <<Num(20)>> ELSE <<>>)
     \o (IF counted
           THEN <<IF meta[1].anomalies * 10 < Num(100)
                    THEN meta[1].anomalies * 10 ELSE Num(100)>>
           ELSE <<>>)

\* score is the whole number nearest to the mean of the components (halves
\* go up)
IsRoundedMean(score, components) ==
  LET n == Len(components)
      sum == SumOf(components)
  IN /\ score \in {Num(k) : k \in 0..100}
     /\ 2 * n * score - n * Num(1) <= 2 * sum
     /\ 2 * sum < 2 * n * score + n * Num(1)

\* the payload {error: ...}
IsErrorOnly(data) == data.error # NULL /\ data = [NoData EXCEPT !.error = data.error]

\* C34: the risk score of a result that has components is their arithmetic
\* mean rounded to a whole number, the components being exactly those that are
\* present; for the payload {error: ...} under the credential strategy they
\* are 80 and 10.
C34_RiskScoreIsMean ==
  Adapted =>
    LET result == last.arg.result
        components == ComponentsPresent(result)
    IN /\ components # <<>> => IsRoundedMean(result.riskScore, components)
       /\ (SelectsC2pa(last.arg.toolName) /\ IsErrorOnly(last.arg.data)) =>
            components = <<Num(80), Num(10)>>

\* C34 witness: the payload {error: ...} under the credential strategy has the
\* risk score 45, the mean of 80 and 10
C34_Witness ==
  /\ Adapted
  /\ SelectsC2pa(last.arg.toolName)
  /\ IsErrorOnly(last.arg.data)
  /\ last.arg.result.riskScore = Num(45)

\* what the credential validity rule gives for a payload: an explicit flag is
\* true, or a manifest or credential is present and the list of validation
\* errors is absent or empty
ValidByRule(data) ==
  LET report == data.validation_report
      flagged == \/ data.is_valid = Some(TRUE)
                 \/ data.valid = Some(TRUE)
                 \/ report # NULL /\ report[1].is_valid = Some(TRUE)
      present == \/ data.manifest_store # NULL
                 \/ data.has_manifest = Some(TRUE)
                 \/ report # NULL /\ report[1].manifest_store # NULL
      clean == report = NULL \/ report[1].validation_errors \in {NULL, Some(0)}
  IN flagged \/ (present /\ clean)

\* C35: under the credential strategy a payload without a top-level error is
\* adapted to valid = true exactly when an explicit is_valid or valid flag is
\* true, or a manifest or credential is present and no validation errors are
\* reported (the list is absent or empty); otherwise valid is not true.
C35_ValidityRule ==
  (/\ Adapted
   /\ SelectsC2pa(last.arg.toolName)
   /\ last.arg.data.error = NULL
   /\ last.arg.data.status = NULL) =>
    /\ last.arg.result.c2paValidation # NULL
    /\ TruthyBool(last.arg.result.c2paValidation[1].valid)
         <=> ValidByRule(last.arg.data)


\* two characters that are the same letter, whatever their case
SameLetter(a, b) ==
  \/ a = b
  \/ \E k \in DOMAIN UpperCase : {a, b} = {UpperCase[k], LowerCase[k]}

\* word occurs in name when case is ignored
Mentions(name, word) ==
  \E i \in 0..(Len(name) - Len(word)) :
     \A k \in DOMAIN word : SameLetter(name[i + k], word[k])

\* the strategy the selection rule picks for a tool name
StrategyOf(toolName) ==
  IF Mentions(toolName, <<"d", "e", "e", "p", "f", "a", "k", "e">>) THEN "deepfake"
  ELSE IF Mentions(toolName, <<"a", "i">>)
            \/ Mentions(toolName, <<"d", "e", "t", "e", "c", "t">>) THEN "ai"
  ELSE IF Mentions(toolName, <<"t", "e", "x", "t">>) THEN "text"
  ELSE IF Mentions(toolName, <<"c", "2", "p", "a">>) THEN "c2pa"
  ELSE "none"

\* the fields of a result that a strategy fills in
FieldsOf(result) ==
  [aiDetection |-> result.aiDetection, c2paValidation |-> result.c2paValidation,
   metadata |-> result.metadata, detailScores |-> result.detailScores]

\* C36: the result is the one of the strategy selected by case-insensitive
\* substring match on the tool name, the first match winning in the order
\* deepfake, ai or detect, text, c2pa; a name that matches none gives a
\* result without aiDetection, c2paValidation and metadata, which has only the
\* raw data and the risk score 50.
C36_StrategySelection ==
  Adapted =>
    LET toolName == last.arg.toolName
        data == last.arg.data
        result == last.arg.result
        strategy == StrategyOf(toolName)
    IN /\ result.rawData = data
       /\ strategy = "deepfake" => FieldsOf(result) = FieldsOf(adaptDeepfakeResult(data))
       /\ strategy = "ai" => FieldsOf(result) = FieldsOf(adaptAIGeneratedResult(data))
       /\ strategy = "text" => FieldsOf(result) = FieldsOf(adaptTextResult(data))
       /\ strategy = "c2pa" => FieldsOf(result) = FieldsOf(adaptC2PAResult(data))
       /\ strategy = "none" =>
            /\ FieldsOf(result) = FieldsOf(Partial(NULL, NULL, NULL, NULL, data))
            /\ result.riskScore = Num(50)

\* C36 witness: a name in capitals that mentions ai and text was given a
\* payload with sentences, and the AI strategy, not the text strategy, adapted
\* it
C36_Witness ==
  /\ Adapted
  /\ last.arg.toolName = <<"A", "I", "_", "T", "e", "x", "t">>
  /\ last.arg.data.sentence_scores # NULL
  /\ last.arg.result.aiDetection # NULL
  /\ last.arg.result.detailScores = NULL

(* ===================== claims: the flush of the queue ================== *)
\* the connection manager with the loop of flushMessageQueue running on: once
\* entered, the loop is the only code that runs until it exits
SpecFlush == Init /\ [][NextConn]_vars /\ WF_vars(FlushStep)

\* C37: every flushMessageQueue() started by an open event ends after finitely
\* many iterations, also when the transport that opened is not the one the
\* manager refers to.
C37_FlushTerminates == (pc = "flush") ~> (pc = "idle")

\* C38: whenever the connection status of the store is 'connected', the
\* transport the manager refers to is open (so that send() writes to it and
\* does not queue), after every interleaving of connect, open, close,
\* disconnect, reconnect and timer events.
C38_ConnectedMeansOpen == connectionStatus = "connected" => socket = "open"

(* ==================== claims: the file key over time =================== *)
\* a tool_result that names its file by a path argument or in its result,
\* not by a file:<id> reference
ByNameOrPath(args) == FirstPath(args) = NULL \/ ~IsFileRef(FirstPath(args))

\* tool_result frames that all name their file by a path or in the result,
\* and the upload_complete that records the id of that file
NextNamed ==
  \/ \E tool \in Tools, args \in {a \in ArgChoices : ByNameOrPath(a)},
         result \in Payloads :
       ToolResult(tool, args, result)
  \/ \E fileId \in FileIds, name \in FileNames :
       UploadComplete("current", NoUpload, fileId, name)

SpecNamed == InitOpen /\ [][NextNamed]_vars

\* C39: a tool_result that references a file by name or path stores its
\* result under the key that holds the results already stored for the file of
\* that name, whether the upload_complete that records the id of the file came
\* before them or after.
C39_FileKeyStable ==
  [][(/\ last'.type = "tool_result"
      /\ ByNameOrPath(last'.arg.args)
      /\ currentAnalysis'.fileName # UNKNOWN) =>
       \A k \in DOMAIN analysisResultsByFile :
         (\E i \in DOMAIN analysisResultsByFile[k] :
             analysisResultsByFile[k][i].fileName = currentAnalysis'.fileName)
           => k = FileKeyOf(currentAnalysis')]_vars

(* =================== claims: the thinking placeholder ================== *)
\* a message chat_start created (its id is `msg-...`)
FromChatStart(m) == m.id # NULL /\ Head(m.id) = "msg"

\* C40: right after chat_complete has been handled, no message that a
\* chat_start created is still of type agent-thinking, whatever came between
\* the chat_start and the chat_complete (no chat_content at all, or a
\* tool_call right after the chat_start).
C40_NoThinkingAfterComplete ==
  last.type = "chat_complete" =>
    \A i \in DOMAIN messages :
      FromChatStart(messages[i]) => messages[i].type # "agent-thinking"

====
